---- MODULE Spec2Model ----
(***************************************************************************)
(* A state-machine model of the entity-update-and-combat core of the       *)
(* ASCII shooter (src/js/main.js): weapons and fire-rate gating, the       *)
(* circular collision test, and damage, death and respawn of the player    *)
(* and of the enemies.                                                     *)
(*                                                                         *)
(* Times are milliseconds and positions are pixels, both as integers.      *)
(* The model has one specification per subsystem; a specification keeps    *)
(* the variables of the other subsystems at their constructed values.      *)
(***************************************************************************)
EXTENDS Integers, Sequences, FiniteSets, TLC

VARIABLES
    now,                \* performance.now(), the wall clock in ms
    lastFireTime,       \* Weapon.lastFireTime of each of the player's weapons
    ammo,               \* RocketLauncher.ammo
    currentWeaponIndex, \* Player.currentWeaponIndex (0-based, as in the code)
    fireLog,            \* history: the fire() call made at the current instant, if any
    lastShot,           \* history: when each weapon last returned a projectile (-1: never)
    probe,              \* the two entities last given to collidesWith, and its results
    projectiles,        \* game.projectiles
    effects,            \* game.effects as the weapons push onto it
    player,             \* game.player
    enemies,            \* game.enemies
    powerups,           \* game.powerups
    score,              \* game.score
    gameOver,           \* game.gameOver
    respawnTimers,      \* pending setTimeout(() => this.respawn(), 1000) callbacks
    crashed,            \* an uncaught RangeError left gameLoop: no frame follows
    spawned,            \* enemies the wave manager has spawned (group.spawned)
    sinceRespawn,       \* history: simulated ms Player.update has added since the
                        \* latest respawn, -1 before the first; stops at the duration
    wm,                 \* game.waveManager, with the enemies each group has pushed
    bossTriggered,      \* game.bossTriggered
    gunship,            \* a Gunship's hover and burst state, with the projectiles
                        \* its current burst has pushed
    lastRoll,           \* history: the enemy class and Math.random() of the latest
                        \* drop roll
    pre,                \* history: player, score and timers when the latest update() began
    tally,              \* history: what the latest collision pass did
    input,              \* game.input: keys and previousKeys, with the history of
                        \* the edge-triggered signals
    config,             \* CONFIG.canvas.width and height and CONFIG.player.bounds,
                        \* with the number of frames moved on a diagonal
    loop,               \* game.lastTime and game.deltaTime, with the history of
                        \* the latest gameLoop callback
    fx,                 \* an Effect of game.effects and game.particles, with the
                        \* history of the particles the effect has pushed
    rocket,             \* a Rocket of game.projectiles, with its heading towards
                        \* the enemy before and after its latest update
    order,              \* history: what the updates and the collision passes
                        \* have seen of each enemy of game.enemies
    event               \* history: the latest spawn event of a group, kill of the
                        \* player or frame, as the specification at hand records it

\* The variables only the weapon and collision-test specifications change
weaponVars == <<now, lastFireTime, currentWeaponIndex, fireLog, lastShot, probe, effects>>

\* The variables only the combat specifications change
combatVars == <<player, enemies, powerups, score, gameOver, respawnTimers, crashed,
                spawned, sinceRespawn, pre, tally>>

\* The variables of the wave director, the Gunship and the drop roll
scenarioVars == <<wm, bossTriggered, gunship, lastRoll>>

\* The weapon variables but the clock
fireVars == <<lastFireTime, currentWeaponIndex, fireLog, lastShot, probe, effects>>

\* The variables of the game loop, of an effect, of a rocket and of the
\* order of a frame
frameVars == <<loop, fx, rocket, order>>

\* The variables of the input manager and of the canvas, and of the frame
extraVars == <<input, config, loop, fx, rocket, order, event>>

\* The history of the latest event
lateVars == <<event>>

vars == <<now, lastFireTime, ammo, currentWeaponIndex, fireLog, lastShot, probe,
          projectiles, effects, player, enemies, powerups, score, gameOver,
          respawnTimers, crashed, spawned, sinceRespawn, wm, bossTriggered,
          gunship, lastRoll, pre, tally, input, config, loop, fx, rocket, order,
          event>>

(***************************************************************************)
(* Program constants                                                       *)
(***************************************************************************)
CanvasWidth == 800
CanvasHeight == 600
SniperFireRate == 350
SniperDamage == 15
SniperSpeed == 1600
SniperRadius == 3
VulcanFireRate == 80
VulcanDamage == 5
VulcanSpeed == 900
VulcanRadius == 2
VulcanSpread == 5
RocketFireRate == 500
RocketDamage == 50
RocketSpeed == 400
RocketRadius == 5
RocketMaxAmmo == 10
FallbackHitboxRadius == 16
PlayerMaxHealth == 100
PlayerStartLives == 3
InvulnerabilityDuration == 3000
RespawnDelayMs == 1000
ContactDamage == 25
ScoutHealth == 10
ScoutScore == 100
ScoutShotDamage == 10
GunshipHealth == 30
GunshipScore == 250
GunshipShotDamage == 15
KamikazeHealth == 5
KamikazeScore == 150
KamikazeAcceleration == 150
KamikazeMaxSpeed == 300
TrackingStrengthTenths == 8
KamikazeInitialVy == 100
ExplosionDamage == 25
ExplosionRadius == 40
EnemyShotRadius == 3
PowerUpRadius == 10
PowerUpSpeed == 80
HealAmount == 25
LargeHealAmount == 50
AmmoAmount == 5
MaxDeltaMs == 100
BoundsLeft == 20
BoundsRight == 780
BoundsTop == 50
BoundsBottom == 550
BreakDuration == 3000
MinWidth == 800
MinHeight == 600
PlayerSpeed == 250
HomingStrengthTenths == 3
RocketAcceleration == 100
HomingActivationMs == 200
ScoutBaseSpeed == 120
GunshipFireRate == 1200
BurstCount == 3
BurstDelay == 150
DescendTo == 150
DriftAmount == 20
DriftSpeed == 30
GunshipBaseSpeed == 60
SpawnY == -20

(***************************************************************************)
(* Bounds of the model                                                     *)
(***************************************************************************)
MaxNow == 1000          \* the wall clock stops advancing here
MaxShots == 2           \* successful fire() calls in one behaviour
MaxProjectiles == 2     \* enemy projectiles on the player at one time
MaxEnemies == 3         \* enemies on the field at one time

\* Clock steps: sums of these hit the three fire intervals exactly
\* (80, 80+270 = 350, 350+150 = 500) and miss them from below and above.
ClockSteps == {80, 150, 270}

\* (Math.random() - 0.5) * spread * 2 lies in [-spread, spread)
SpreadOffsets == {-VulcanSpread, VulcanSpread - 1}

\* The rocket ammo at the start of a behaviour: the launcher as constructed,
\* and the launcher nine rockets later.  The code reads the clock only in
\* differences (currentTime - lastFireTime), so the clock of the model counts
\* from the moment the behaviour starts.
StartAmmo == {RocketMaxAmmo, 1}

PlayerStartX == CanvasWidth \div 2
PlayerStartY == CanvasHeight - 100

(***************************************************************************)
(* Entity.collidesWith                                                     *)
(***************************************************************************)
\* Math.sqrt on a non-negative integer, rounded down.  The code compares the
\* square root with a sum of radii; for an integer sum R and d2 < 2^52 the
\* double nearest to sqrt(d2) is below R exactly when floor(sqrt(d2)) is.
RECURSIVE SqrtBetween(_, _, _)
\* The largest k in lo..hi with k * k <= n, by bisection
SqrtBetween(n, lo, hi) ==
    IF lo >= hi
    THEN lo
    ELSE IF ((lo + hi + 1) \div 2) * ((lo + hi + 1) \div 2) <= n
         THEN SqrtBetween(n, (lo + hi + 1) \div 2, hi)
         ELSE SqrtBetween(n, lo, (lo + hi + 1) \div 2 - 1)

\* No two points of the canvas are further apart than its width plus its height
ISqrt(n) ==
    SqrtBetween(n, 0, IF n < CanvasWidth + CanvasHeight THEN n
                                                        ELSE CanvasWidth + CanvasHeight)

Distance(a, b) ==
    LET dx == a.x - b.x
        dy == a.y - b.y
    IN  ISqrt(dx * dx + dy * dy)

collidesWithLe(a, b) == Distance(a, b) <= a.hitboxRadius + b.hitboxRadius

collidesWith(a, b) == Distance(a, b) < a.hitboxRadius + b.hitboxRadius

(***************************************************************************)
(* Weapons                                                                 *)
(***************************************************************************)
WeaponIds == {"sniper", "vulcan", "rocket"}

\* Player.weapons, indexed from 0 as in the code
PlayerWeapons == <<"sniper", "vulcan">>

FireRate(w) ==
    CASE w = "sniper" -> SniperFireRate
      [] w = "vulcan" -> VulcanFireRate
      [] w = "rocket" -> RocketFireRate

WeaponCanFireStrict(w, t) == (t - lastFireTime[w]) > FireRate(w)

\* Weapon.canFire
WeaponCanFire(w, t) == (t - lastFireTime[w]) >= FireRate(w)

CanFireWithoutAmmo(w, t) == WeaponCanFire(w, t)

\* RocketLauncher.canFire, and Weapon.canFire for the other two
CanFire(w, t) ==
    IF w = "rocket" THEN WeaponCanFire(w, t) /\ ammo > 0
                    ELSE WeaponCanFire(w, t)

\* new Projectile(x, y, config) with the defaults of the constructor
Projectile(type, x, y, speed, damage, radius) ==
    [type |-> type, x |-> x, y |-> y, vx |-> 0, vy |-> -speed,
     damage |-> damage, hitboxRadius |-> radius, owner |-> "player",
     active |-> TRUE]

\* createProjectiles of the three weapons: the projectiles returned
CreateProjectiles(w, x, y, spread) ==
    CASE w = "sniper" ->
           <<Projectile("projectile", x, y - 10, SniperSpeed, SniperDamage, SniperRadius)>>
      [] w = "vulcan" ->
           <<Projectile("projectile", x + spread, y - 10, VulcanSpeed, VulcanDamage, VulcanRadius)>>
      [] w = "rocket" ->
           <<Projectile("rocket", x, y - 10, RocketSpeed, RocketDamage, RocketRadius)
               @@ [age |-> 0]>>

\* createMuzzleFlash(x, y, color)
MuzzleFlash(x, y) == [kind |-> "muzzle", x |-> x, y |-> y - 5]

AmmoAfterAlways(w, n, returned) == IF w = "rocket" THEN n - 1 ELSE n

\* RocketLauncher.fire: ammo-- only if super.fire returned a projectile
AmmoAfter(w, n, returned) ==
    IF w = "rocket" /\ Len(returned) > 0 THEN n - 1 ELSE n

\* Weapon.fire / RocketLauncher.fire at (x, y) and time t, and the caller's
\* game.projectiles.push(...projectiles) in update().
Fire(w, x, y, t, spread) ==
    LET ok       == CanFire(w, t)
        returned == IF ok THEN CreateProjectiles(w, x, y, spread) ELSE <<>>
    IN  /\ ok => Len(projectiles) < MaxShots
        /\ lastFireTime' = IF ok THEN [lastFireTime EXCEPT ![w] = t] ELSE lastFireTime
        /\ effects' = IF ok THEN Append(effects, MuzzleFlash(x, y)) ELSE effects
        /\ ammo' = AmmoAfter(w, ammo, returned)
        /\ projectiles' = projectiles \o returned
        /\ fireLog' = [weapon |-> w, time |-> t,
                       lastBefore |-> lastFireTime[w],
                       ammoBefore |-> ammo,
                       count |-> Len(returned),
                       prevShot |-> lastShot[w]]
        /\ lastShot' = IF ok THEN [lastShot EXCEPT ![w] = t] ELSE lastShot

\* update(): if (game.input.isShootPressed()) game.player.fire(performance.now())
PlayerFire ==
    /\ \E spread \in SpreadOffsets :
         Fire(PlayerWeapons[currentWeaponIndex + 1], PlayerStartX, PlayerStartY, now, spread)
    /\ UNCHANGED <<now, currentWeaponIndex, probe>>
    /\ UNCHANGED combatVars
    /\ UNCHANGED scenarioVars
    /\ UNCHANGED extraVars

\* update(): if (game.input.wasSpecialWeaponPressed()) game.player.fireRocket(...)
PlayerFireRocket ==
    /\ Fire("rocket", PlayerStartX, PlayerStartY, now, 0)
    /\ UNCHANGED <<now, currentWeaponIndex, probe>>
    /\ UNCHANGED combatVars
    /\ UNCHANGED scenarioVars
    /\ UNCHANGED extraVars

\* Player.switchWeapon
SwitchWeapon ==
    /\ currentWeaponIndex' = (currentWeaponIndex + 1) % Len(PlayerWeapons)
    /\ UNCHANGED <<now, lastFireTime, ammo, fireLog, lastShot, probe, projectiles,
                   effects>>
    /\ UNCHANGED combatVars
    /\ UNCHANGED scenarioVars
    /\ UNCHANGED extraVars

NoProbe == [a |-> [x |-> 0, y |-> 0, hitboxRadius |-> 0],
            b |-> [x |-> 0, y |-> 0, hitboxRadius |-> 0],
            ab |-> FALSE, ba |-> FALSE, done |-> FALSE]

NoFire == [weapon |-> "none", time |-> 0, lastBefore |-> 0, ammoBefore |-> 0,
           count |-> 0, prevShot |-> -1]

\* The wall clock advances between two calls.
AdvanceClock ==
    /\ \E d \in ClockSteps :
         /\ now + d <= MaxNow
         /\ now' = now + d
    /\ fireLog' = NoFire
    /\ UNCHANGED <<lastFireTime, ammo, currentWeaponIndex, lastShot, probe,
                   projectiles, effects>>
    /\ UNCHANGED combatVars
    /\ UNCHANGED scenarioVars
    /\ UNCHANGED extraVars

(***************************************************************************)
(* Player, enemies and the collision pass                                  *)
(*                                                                         *)
(* The combat specifications follow update() through Player.update,        *)
(* handleCollisions and the pruning of inactive entities.  Movement is     *)
(* left out: an entity stays where it arrived, and arrivals (an enemy      *)
(* reaching a spot, a projectile reaching the player) are steps of the     *)
(* environment.  Every hitbox radius the code measures from the rendered   *)
(* art is the code's fallback radius.  The effects a pass pushes onto      *)
(* game.effects are counted in tally, not kept.                            *)
(***************************************************************************)
EnemyTypes == {"Scout", "Gunship", "Kamikaze"}

\* The deepest nesting of takeDamage calls the call stack holds; one more
\* call throws RangeError (Maximum call stack size exceeded).
StackDepth == 6

\* The latest instant of the wave director's clock
MaxDirectorNow == 115000

\* The latest instant of the clock when frames keep coming: later than the
\* latest instant at which the boss can be triggered
MaxLiveNow == 140000

\* The consecutive ticks a key is counted as held for
MaxHeldTicks == 3

\* The frames the ship is moved on a diagonal
MaxDiagonalFrames == 1

\* The animation-frame callbacks of the game loop specification
MaxLoopFrames == 3

\* The particles of earlier effects that may still be in game.particles when
\* the next effect is pushed
MaxLingering == 8

\* The frames a rocket is followed for
MaxRocketFrames == 8

\* The latest instant of the frame order specification's clock
MaxOrderNow == 3500

\* The spawn events of the formation specification
MaxSpawnEvents == 2

\* The descents and frames of the specification of leaving enemies
MaxLeaveEvents == 10

\* The scenes and frames of the pruning specification
MaxPruneEvents == 4

\* The latest instant of the ammo specification's clock
MaxAmmoNow == 1500

\* The latest instant of the respawn specification's clock
MaxRespawnNow == 1400

\* The latest instant of the Gunship specification's clock
MaxGunshipNow == 5000

\* Math.random() at the drop roll of a dying enemy, in percent
Rolls == {20, 40, 99}

Spot(x, y) == [x |-> x, y |-> y]

\* Where the model lets entities arrive: on the player, in contact with the
\* player on its left and right (50 apart, outside each other's explosion
\* radius), three spots within 40 of each other away from the player, and a
\* spot far from everything.
OnPlayer == Spot(PlayerStartX, PlayerStartY)
LeftOfPlayer == Spot(PlayerStartX - 25, PlayerStartY)
RightOfPlayer == Spot(PlayerStartX + 25, PlayerStartY)
ClusterA == Spot(200, 200)
ClusterB == Spot(220, 200)
ClusterC == Spot(239, 200)
FarAway == Spot(600, 100)

MaxHealthOf(type) ==
    CASE type = "Scout" -> ScoutHealth
      [] type = "Gunship" -> GunshipHealth
      [] type = "Kamikaze" -> KamikazeHealth

ScoreValue(type) ==
    CASE type = "Scout" -> ScoutScore
      [] type = "Gunship" -> GunshipScore
      [] type = "Kamikaze" -> KamikazeScore

\* this.dropTable, in insertion order, chances in percent
DropTable(type) ==
    CASE type = "Scout" -> <<<<"health", 30>>, <<"rocket_ammo", 10>>, <<"nothing", 60>>>>
      [] type = "Gunship" -> <<<<"health_large", 20>>, <<"rocket_ammo", 30>>, <<"nothing", 50>>>>
      [] type = "Kamikaze" -> <<<<"nothing", 100>>>>

\* new Scout / Gunship / Kamikaze (x, y); deaths counts its onDeath calls
Enemy(type, spot) ==
    [type |-> type, x |-> spot.x, y |-> spot.y, health |-> MaxHealthOf(type),
     hitboxRadius |-> FallbackHitboxRadius, active |-> TRUE, deaths |-> 0]

\* Enemy.fire: new Projectile(..., {damage, hitboxRadius || 3, owner: 'enemy'})
EnemyProjectile(spot, damage) ==
    [type |-> "projectile", x |-> spot.x, y |-> spot.y, vx |-> 0, vy |-> 0,
     damage |-> damage, hitboxRadius |-> EnemyShotRadius, owner |-> "enemy",
     active |-> TRUE]

\* new PowerUp(x, y, type)
PowerUp(x, y, type) ==
    [type |-> type, x |-> x, y |-> y, hitboxRadius |-> PowerUpRadius, active |-> TRUE]

\* new Player(width / 2, height - 100)
NewPlayer ==
    [x |-> PlayerStartX, y |-> PlayerStartY, health |-> PlayerMaxHealth,
     lives |-> PlayerStartLives, invulnerable |-> FALSE, invulnerabilityTimer |-> 0,
     hitboxRadius |-> FallbackHitboxRadius, active |-> TRUE]

\* F applied to the value of v, with v evaluated once
Bind(v, F(_)) == CHOOSE r \in {F(x) : x \in {v}} : TRUE

ZeroTally ==
    [hits |-> 0,           \* Player.takeDamage calls
     lost |-> 0,           \* health those calls took
     dies |-> 0,           \* Player.die calls
     shielded |-> FALSE,   \* player.invulnerable during the pass
     impact |-> 0, small |-> 0, large |-> 0,   \* effects pushed, by factory
     drops |-> 0,          \* power-ups pushed
     contacts |-> 0,       \* enemies an active player touched
     pierced |-> 0,        \* enemies hit by a player projectile already destroyed
     late |-> 0]           \* takeDamage calls, contact kills and pickups of a
                           \* player already inactive

\* The game state a collision pass works on
Game ==
    [player |-> player, enemies |-> enemies, projectiles |-> projectiles,
     powerups |-> powerups, score |-> score, gameOver |-> gameOver,
     timers |-> respawnTimers, ammo |-> ammo, crashed |-> FALSE,
     tally |-> ZeroTally]

\* Player.die
PlayerDie(g) ==
    IF g.player.lives - 1 > 0
    THEN [g EXCEPT !.tally.large = @ + 1, !.tally.dies = @ + 1,
                   !.player.lives = @ - 1, !.timers = @ + 1]
    ELSE [g EXCEPT !.tally.large = @ + 1, !.tally.dies = @ + 1,
                   !.player.lives = @ - 1, !.player.active = FALSE,
                   !.gameOver = TRUE]

DamagePlayerHalvedWhenInvulnerable(g, amount) ==
    IF g.player.health - (IF g.player.invulnerable THEN amount \div 2 ELSE amount) <= 0
    THEN Bind([g EXCEPT !.player.health = 0], LAMBDA g1 : PlayerDie(g1))
    ELSE [g EXCEPT !.player.health =
              @ - (IF g.player.invulnerable THEN amount \div 2 ELSE amount)]

\* Player.takeDamage, its body
DamagePlayer(g, amount) ==
    IF g.player.invulnerable
    THEN g
    ELSE IF g.player.health - amount <= 0
         THEN Bind([g EXCEPT !.player.health = 0], LAMBDA g1 : PlayerDie(g1))
         ELSE [g EXCEPT !.player.health = @ - amount]

\* A call of game.player.takeDamage(amount), counted in the tally
PlayerTakeDamage(g, amount) ==
    Bind(DamagePlayer(g, amount),
         LAMBDA g1 : [g1 EXCEPT !.tally.hits = @ + 1,
                                !.tally.lost = @ + (g.player.health - g1.player.health),
                                !.tally.late = IF g.player.active THEN @ ELSE @ + 1])

RECURSIVE DropRollStrict(_, _, _, _)
DropRollStrict(table, k, cumulative, roll) ==
    IF k > Len(table)
    THEN "none"
    ELSE IF roll < cumulative + table[k][2] /\ table[k][1] # "nothing"
         THEN table[k][1]
         ELSE DropRollStrict(table, k + 1, cumulative + table[k][2], roll)

RECURSIVE DropRoll(_, _, _, _)
\* The loop of Enemy.onDeath over Object.entries(this.dropTable): the type of the
\* power-up pushed, or "none"
DropRoll(table, k, cumulative, roll) ==
    IF k > Len(table)
    THEN "none"
    ELSE IF roll <= cumulative + table[k][2] /\ table[k][1] # "nothing"
         THEN table[k][1]
         ELSE DropRoll(table, k + 1, cumulative + table[k][2], roll)

\* Enemy.onDeath (Scout and Gunship): score, explosion, drop roll
EnemyOnDeath(g, i, roll) ==
    Bind(DropRoll(DropTable(g.enemies[i].type), 1, 0, roll),
         LAMBDA drop :
           IF drop = "none"
           THEN [g EXCEPT !.score = @ + ScoreValue(g.enemies[i].type),
                          !.tally.small = @ + 1]
           ELSE [g EXCEPT !.score = @ + ScoreValue(g.enemies[i].type),
                          !.tally.small = @ + 1,
                          !.powerups = Append(@, PowerUp(g.enemies[i].x,
                                                         g.enemies[i].y, drop)),
                          !.tally.drops = @ + 1])

RECURSIVE EnemyTakeDamage(_, _, _, _, _)
RECURSIVE ChainReaction(_, _, _, _, _)

\* Kamikaze.onDeath: explosion, score, damage to the player within the
\* explosion radius, then takeDamage on every other active enemy within it
KamikazeOnDeath(g, i, rolls, depth) ==
    Bind([g EXCEPT !.tally.small = @ + 1,
                   !.score = @ + ScoreValue(g.enemies[i].type)],
         LAMBDA g1 :
           Bind(IF g1.player.active
                   /\ Distance(g1.player, g1.enemies[i]) < ExplosionRadius
                THEN PlayerTakeDamage(g1, ExplosionDamage)
                ELSE g1,
                LAMBDA g2 : ChainReaction(g2, i, 1, rolls, depth)))

\* game.enemies.forEach(enemy => ...) of Kamikaze.onDeath, from index j on
ChainReaction(g, i, j, rolls, depth) ==
    IF j > Len(g.enemies) \/ g.crashed
    THEN g
    ELSE IF \/ j = i
            \/ ~g.enemies[j].active
            \/ ~(Distance(g.enemies[j], g.enemies[i]) < ExplosionRadius)
         THEN ChainReaction(g, i, j + 1, rolls, depth)
         ELSE Bind(EnemyTakeDamage(g, j, ExplosionDamage, rolls, depth),
                   LAMBDA g1 : ChainReaction(g1, i, j + 1, rolls, depth))

\* this.onDeath() of an enemy, by class
OnDeath(g, i, rolls, depth) ==
    IF g.enemies[i].type = "Kamikaze"
    THEN KamikazeOnDeath(g, i, rolls, depth)
    ELSE EnemyOnDeath(g, i, rolls[i])

\* Enemy.takeDamage at nesting depth `depth`: onDeath runs before destroy, so
\* the enemy is still active while its onDeath runs.  A RangeError unwinds
\* every caller: nothing after the throwing call is executed.
EnemyTakeDamage(g, i, amount, rolls, depth) ==
    IF depth > StackDepth
    THEN [g EXCEPT !.crashed = TRUE]
    ELSE IF g.enemies[i].health - amount <= 0
         THEN Bind([g EXCEPT !.enemies[i].health = 0, !.enemies[i].deaths = @ + 1],
                   LAMBDA g1 :
                     Bind(OnDeath(g1, i, rolls, depth + 1),
                          LAMBDA g2 : IF g2.crashed
                                      THEN g2
                                      ELSE [g2 EXCEPT !.enemies[i].active = FALSE]))
         ELSE [g EXCEPT !.enemies[i].health = @ - amount]

Min(a, b) == IF a < b THEN a ELSE b

PowerUpCollectUnclamped(g, k) ==
    CASE g.powerups[k].type = "health" ->
           [g EXCEPT !.player.health = @ + HealAmount, !.powerups[k].active = FALSE]
      [] g.powerups[k].type = "health_large" ->
           [g EXCEPT !.player.health = @ + LargeHealAmount, !.powerups[k].active = FALSE]
      [] g.powerups[k].type = "rocket_ammo" ->
           [g EXCEPT !.ammo = @ + AmmoAmount, !.powerups[k].active = FALSE]
      [] OTHER -> [g EXCEPT !.powerups[k].active = FALSE]

PowerUpCollectStaysActive(g, k) ==
    CASE g.powerups[k].type = "health" ->
           [g EXCEPT !.player.health = Min(PlayerMaxHealth, @ + HealAmount)]
      [] g.powerups[k].type = "health_large" ->
           [g EXCEPT !.player.health = Min(PlayerMaxHealth, @ + LargeHealAmount)]
      [] g.powerups[k].type = "rocket_ammo" ->
           [g EXCEPT !.ammo = Min(RocketMaxAmmo, @ + AmmoAmount)]
      [] OTHER -> g

\* PowerUp.collect, for game.powerups[k]
PowerUpCollect(g, k) ==
    CASE g.powerups[k].type = "health" ->
           [g EXCEPT !.player.health = Min(PlayerMaxHealth, @ + HealAmount),
                     !.powerups[k].active = FALSE]
      [] g.powerups[k].type = "health_large" ->
           [g EXCEPT !.player.health = Min(PlayerMaxHealth, @ + LargeHealAmount),
                     !.powerups[k].active = FALSE]
      [] g.powerups[k].type = "rocket_ammo" ->
           [g EXCEPT !.ammo = Min(RocketMaxAmmo, @ + AmmoAmount),
                     !.powerups[k].active = FALSE]
      [] OTHER -> [g EXCEPT !.powerups[k].active = FALSE]

RECURSIVE ProjectileVsEnemies(_, _, _, _)
\* handleCollisions, the inner game.enemies.forEach for player projectile p,
\* from enemy e on; projectile.active is not tested again after a hit
ProjectileVsEnemies(g, p, e, rolls) ==
    IF e > Len(g.enemies) \/ g.crashed
    THEN g
    ELSE IF g.enemies[e].active /\ collidesWith(g.projectiles[p], g.enemies[e])
         THEN Bind(EnemyTakeDamage([g EXCEPT !.tally.impact = @ + 1,
                                             !.tally.pierced =
                                                 IF g.projectiles[p].active
                                                 THEN @ ELSE @ + 1],
                                   e, g.projectiles[p].damage, rolls, 1),
                   LAMBDA g1 :
                     IF g1.crashed
                     THEN g1
                     ELSE Bind([g1 EXCEPT !.projectiles[p].active = FALSE],
                               LAMBDA g2 : ProjectileVsEnemies(g2, p, e + 1, rolls)))
         ELSE ProjectileVsEnemies(g, p, e + 1, rolls)

RECURSIVE PlayerProjectilesVsEnemies(_, _, _)
\* handleCollisions: player projectiles vs enemies, from projectile p on
PlayerProjectilesVsEnemies(g, p, rolls) ==
    IF p > Len(g.projectiles) \/ g.crashed
    THEN g
    ELSE IF g.projectiles[p].active /\ g.projectiles[p].owner = "player"
         THEN Bind(ProjectileVsEnemies(g, p, 1, rolls),
                   LAMBDA g1 : PlayerProjectilesVsEnemies(g1, p + 1, rolls))
         ELSE PlayerProjectilesVsEnemies(g, p + 1, rolls)

RECURSIVE EnemyProjectilesVsPlayer(_, _)
\* handleCollisions: enemy projectiles vs player, from projectile p on; the
\* player's active flag is tested once, before the loop
EnemyProjectilesVsPlayer(g, p) ==
    IF p > Len(g.projectiles)
    THEN g
    ELSE IF /\ g.projectiles[p].active
            /\ g.projectiles[p].owner = "enemy"
            /\ collidesWith(g.projectiles[p], g.player)
         THEN Bind(PlayerTakeDamage(g, g.projectiles[p].damage),
                   LAMBDA g1 :
                     Bind([g1 EXCEPT !.tally.impact = @ + 1,
                                     !.projectiles[p].active = FALSE],
                          LAMBDA g2 : EnemyProjectilesVsPlayer(g2, p + 1)))
         ELSE EnemyProjectilesVsPlayer(g, p + 1)

RECURSIVE PlayerVsEnemies(_, _, _)
\* handleCollisions: player vs enemies (body contact), from enemy e on
PlayerVsEnemies(g, e, rolls) ==
    IF e > Len(g.enemies) \/ g.crashed
    THEN g
    ELSE IF g.enemies[e].active /\ collidesWith(g.player, g.enemies[e])
         THEN Bind(PlayerTakeDamage([g EXCEPT !.tally.contacts =
                                                   IF g.player.active THEN @ + 1 ELSE @],
                                    ContactDamage),
                   LAMBDA g1 :
                     Bind(EnemyTakeDamage([g1 EXCEPT !.tally.late =
                                                         IF g1.player.active
                                                         THEN @ ELSE @ + 1],
                                          e, g1.enemies[e].health, rolls, 1),
                          LAMBDA g2 : PlayerVsEnemies(g2, e + 1, rolls)))
         ELSE PlayerVsEnemies(g, e + 1, rolls)

RECURSIVE PlayerVsPowerUps(_, _)
\* handleCollisions: player vs power-ups, from power-up k on
PlayerVsPowerUps(g, k) ==
    IF k > Len(g.powerups)
    THEN g
    ELSE IF g.powerups[k].active /\ collidesWith(g.player, g.powerups[k])
         THEN Bind(PowerUpCollect([g EXCEPT !.tally.late = IF g.player.active
                                                            THEN @ ELSE @ + 1], k),
                   LAMBDA g1 : PlayerVsPowerUps(g1, k + 1))
         ELSE PlayerVsPowerUps(g, k + 1)

\* handleCollisions; a RangeError thrown in a section skips the later ones
HandleCollisions(g, rolls) ==
    Bind(PlayerProjectilesVsEnemies(g, 1, rolls),
      LAMBDA s1 :
        Bind(IF ~s1.crashed /\ s1.player.active
             THEN EnemyProjectilesVsPlayer(s1, 1) ELSE s1,
          LAMBDA s2 :
            Bind(IF ~s2.crashed /\ s2.player.active
                 THEN PlayerVsEnemies(s2, 1, rolls) ELSE s2,
              LAMBDA s3 :
                IF ~s3.crashed /\ s3.player.active
                THEN PlayerVsPowerUps(s3, 1) ELSE s3)))

Clamp(lo, hi, v) == IF v < lo THEN lo ELSE IF v > hi THEN hi ELSE v

PlayerUpdateEndsLate(p, deltaMs) ==
    IF p.invulnerable /\ p.invulnerabilityTimer + deltaMs > InvulnerabilityDuration
    THEN [p EXCEPT !.invulnerable = FALSE, !.invulnerabilityTimer = 0]
    ELSE IF p.invulnerable
         THEN [p EXCEPT !.invulnerabilityTimer = @ + deltaMs]
         ELSE p

\* Player.update(deltaTime) with the input at rest (vx = vy = 0), deltaMs =
\* deltaTime * 1000
PlayerUpdate(p, deltaMs) ==
    IF p.invulnerable
    THEN IF p.invulnerabilityTimer + deltaMs >= InvulnerabilityDuration
         THEN [p EXCEPT !.invulnerable = FALSE, !.invulnerabilityTimer = 0,
                        !.x = Clamp(config.left, config.right, @),
                        !.y = Clamp(config.top, config.bottom, @)]
         ELSE [p EXCEPT !.invulnerabilityTimer = @ + deltaMs,
                        !.x = Clamp(config.left, config.right, @),
                        !.y = Clamp(config.top, config.bottom, @)]
    ELSE [p EXCEPT !.x = Clamp(config.left, config.right, @),
                   !.y = Clamp(config.top, config.bottom, @)]

IsActive(entity) == entity.active

NoPre == [pass |-> FALSE, player |-> NewPlayer, enemies |-> <<>>, score |-> 0,
          timers |-> 0]

\* The drop rolls of a pass, one for each enemy with a drop roll in its onDeath
DropRolls ==
    {rolls \in [1..Len(enemies) -> Rolls] :
        \A i \in 1..Len(enemies) : enemies[i].type = "Kamikaze" => rolls[i] = 99}

\* update(deltaTime): returns at once if the player is inactive; otherwise
\* Player.update, handleCollisions, and the removal of inactive entities,
\* which an exception thrown by handleCollisions skips together with the
\* request for the next frame.
Tick(deltaMs) ==
    /\ ~crashed
    /\ player.active
    /\ \E rolls \in DropRolls, p0 \in {PlayerUpdate(player, deltaMs)} :
         \E g \in {HandleCollisions([Game EXCEPT !.player = p0,
                                                 !.tally.shielded = p0.invulnerable],
                                     rolls)} :
             /\ player' = g.player
             /\ enemies' = IF g.crashed THEN g.enemies
                                        ELSE SelectSeq(g.enemies, IsActive)
             /\ projectiles' = IF g.crashed THEN g.projectiles
                                            ELSE SelectSeq(g.projectiles, IsActive)
             /\ powerups' = IF g.crashed THEN g.powerups
                                         ELSE SelectSeq(g.powerups, IsActive)
             /\ score' = g.score
             /\ gameOver' = g.gameOver
             /\ respawnTimers' = g.timers
             /\ ammo' = g.ammo
             /\ crashed' = g.crashed
             /\ tally' = g.tally
             /\ pre' = [pass |-> TRUE, player |-> p0, enemies |-> enemies,
                        score |-> score, timers |-> respawnTimers]
    /\ sinceRespawn' = IF sinceRespawn < 0 \/ sinceRespawn >= InvulnerabilityDuration
                       THEN sinceRespawn
                       ELSE sinceRespawn + deltaMs
    /\ UNCHANGED spawned
    /\ UNCHANGED weaponVars
    /\ UNCHANGED scenarioVars
    /\ UNCHANGED extraVars

\* gameLoop: update(min(elapsed, 0.1 s)) with the frame time at its cap
Frame == Tick(MaxDeltaMs)

\* Milliseconds between two animation frames that come sooner than the cap
ShortDeltaMs == MaxDeltaMs - 30

\* gameLoop: update(elapsed) with the frame time below its cap
ShortFrame == Tick(ShortDeltaMs)

\* Player.respawn
Respawned(p) ==
    [p EXCEPT !.x = config.width \div 2,
              !.y = config.height - 100,
              !.health = PlayerMaxHealth,
              !.invulnerable = TRUE,
              !.invulnerabilityTimer = 0,
              !.active = TRUE]

\* Player.respawn, run by a timer that Player.die set
PlayerRespawn ==
    /\ respawnTimers > 0
    /\ respawnTimers' = respawnTimers - 1
    /\ player' = Respawned(player)
    /\ sinceRespawn' = 0
    /\ tally' = ZeroTally
    /\ pre' = NoPre
    /\ UNCHANGED <<enemies, powerups, score, gameOver, crashed, ammo, projectiles,
                   spawned>>
    /\ UNCHANGED weaponVars
    /\ UNCHANGED scenarioVars
    /\ UNCHANGED extraVars

\* An enemy projectile (a Scout's or a Gunship's shot) reaches the player.
\* Enemies fire only from their update, which runs while the player is active.
EnemyShotArrives ==
    /\ ~crashed
    /\ player.active
    /\ Len(projectiles) < MaxProjectiles
    /\ \E damage \in {ScoutShotDamage, GunshipShotDamage} :
         projectiles' = Append(projectiles, EnemyProjectile(OnPlayer, damage))
    /\ tally' = ZeroTally
    /\ pre' = NoPre
    /\ UNCHANGED <<player, enemies, powerups, score, gameOver, respawnTimers,
                   crashed, ammo, spawned, sinceRespawn>>
    /\ UNCHANGED weaponVars
    /\ UNCHANGED scenarioVars
    /\ UNCHANGED extraVars

(***************************************************************************)
(* The wave director                                                       *)
(*                                                                         *)
(* WaveManager.update reads performance.now(); the director specification  *)
(* lets the clock advance between two frames and runs the update of the    *)
(* frame at the new instant.  The enemies a group pushes onto game.enemies *)
(* are counted in the group (added), not kept.                             *)
(***************************************************************************)
EnemyGroup(type, count, interval, formation) ==
    [type |-> type, count |-> count, interval |-> interval, formation |-> formation]

\* WAVE_DEFINITIONS
WaveDefinitions ==
    << [enemies |-> <<EnemyGroup("Scout", 6, 1500, "single")>>, duration |-> 15000],
       [enemies |-> <<EnemyGroup("Scout", 4, 1200, "single"),
                      EnemyGroup("Gunship", 2, 3000, "single")>>, duration |-> 18000],
       [enemies |-> <<EnemyGroup("Scout", 3, 1500, "single"),
                      EnemyGroup("Kamikaze", 4, 2000, "single")>>, duration |-> 16000],
       [enemies |-> <<EnemyGroup("Scout", 6, 800, "line"),
                      EnemyGroup("Gunship", 2, 4000, "single")>>, duration |-> 20000],
       [enemies |-> <<EnemyGroup("Scout", 8, 1000, "single"),
                      EnemyGroup("Gunship", 3, 3000, "single"),
                      EnemyGroup("Kamikaze", 5, 1800, "single")>>, duration |-> 25000] >>

\* The wave at currentWaveIndex (0-based)
WaveAt(index) == WaveDefinitions[index + 1]

\* spawnSingle, spawnLine, spawnVFormation: the spawnEnemyAt calls of one
\* spawnEnemyGroup call
FormationSize(formation) ==
    CASE formation = "single" -> 1
      [] formation = "line" -> 3
      [] formation = "v" -> 5
      [] OTHER -> 0

\* new WaveManager()
NewWaveManager ==
    [currentWaveIndex |-> 0, waveStartTime |-> 0, waveActive |-> FALSE,
     enemyGroups |-> <<>>, inBreak |-> FALSE, breakStartTime |-> 0]

\* The director's state an update works on
Director == [wm |-> wm, bossTriggered |-> bossTriggered]

\* WaveManager.startWave (and triggerBoss) at time t
StartWave(d, t) ==
    IF d.wm.currentWaveIndex >= Len(WaveDefinitions)
    THEN [d EXCEPT !.bossTriggered = TRUE]
    ELSE [d EXCEPT !.wm.waveActive = TRUE,
                   !.wm.waveStartTime = t,
                   !.wm.enemyGroups =
                       [k \in 1..Len(WaveAt(d.wm.currentWaveIndex).enemies) |->
                           [type |-> WaveAt(d.wm.currentWaveIndex).enemies[k].type,
                            count |-> WaveAt(d.wm.currentWaveIndex).enemies[k].count,
                            interval |-> WaveAt(d.wm.currentWaveIndex).enemies[k].interval,
                            formation |-> WaveAt(d.wm.currentWaveIndex).enemies[k].formation,
                            spawned |-> 0, lastSpawnTime |-> 0, added |-> 0]]]

EndBreakSkipsWave(d, t) ==
    StartWave([d EXCEPT !.wm.inBreak = FALSE, !.wm.currentWaveIndex = @ + 2], t)

EndBreakRepeatsWave(d, t) ==
    StartWave([d EXCEPT !.wm.inBreak = FALSE], t)

\* WaveManager.update, the end of a break: the next wave starts
EndBreak(d, t) ==
    StartWave([d EXCEPT !.wm.inBreak = FALSE, !.wm.currentWaveIndex = @ + 1], t)

SpawnFromGroupUncounted(group, t) ==
    IF t - group.lastSpawnTime >= group.interval
    THEN [group EXCEPT !.spawned = @ + 1, !.lastSpawnTime = t,
                       !.added = @ + FormationSize(group.formation)]
    ELSE group

SpawnFromGroupCatchesUp(group, t) ==
    IF group.spawned >= group.count
    THEN group
    ELSE IF t - group.lastSpawnTime >= group.interval
         THEN Bind(Min(group.count - group.spawned,
                       (t - group.lastSpawnTime) \div group.interval),
                   LAMBDA n :
                     [group EXCEPT !.spawned = @ + n, !.lastSpawnTime = t,
                                   !.added = @ + n * FormationSize(group.formation)])
         ELSE group

\* WaveManager.update, the callback of this.enemyGroups.forEach at time t
SpawnFromGroup(group, t) ==
    IF group.spawned >= group.count
    THEN group
    ELSE IF t - group.lastSpawnTime >= group.interval
         THEN [group EXCEPT !.spawned = @ + 1, !.lastSpawnTime = t,
                            !.added = @ + FormationSize(group.formation)]
         ELSE group

AllSpawned(groups) == \A k \in 1..Len(groups) : groups[k].spawned >= groups[k].count

WaveCompleteEither(groups, waveElapsed, duration) ==
    AllSpawned(groups) \/ waveElapsed >= duration

\* WaveManager.update: allSpawned && waveElapsed >= wave.duration
WaveComplete(groups, waveElapsed, duration) ==
    AllSpawned(groups) /\ waveElapsed >= duration

EndWaveStaysActive(d, t) ==
    [d EXCEPT !.wm.inBreak = TRUE, !.wm.breakStartTime = t]

\* WaveManager.endWave at time t
EndWave(d, t) ==
    [d EXCEPT !.wm.waveActive = FALSE, !.wm.inBreak = TRUE, !.wm.breakStartTime = t]

BreakOverLate(d, t) == t - d.wm.breakStartTime > BreakDuration

\* WaveManager.update: currentTime - this.breakStartTime >= this.breakDuration
BreakOver(d, t) == t - d.wm.breakStartTime >= BreakDuration

\* WaveManager.update with performance.now() = t
WaveManagerUpdate(d, t) ==
    IF d.wm.inBreak
    THEN IF BreakOver(d, t) THEN EndBreak(d, t) ELSE d
    ELSE IF ~d.wm.waveActive
         THEN d
         ELSE Bind([d EXCEPT !.wm.enemyGroups =
                        [k \in 1..Len(@) |-> SpawnFromGroup(@[k], t)]],
                   LAMBDA d1 :
                     IF WaveComplete(d1.wm.enemyGroups, t - d1.wm.waveStartTime,
                                     WaveAt(d1.wm.currentWaveIndex).duration)
                     THEN EndWave(d1, t)
                     ELSE d1)

\* Milliseconds between two frames: a slow frame, a stall, and a long pause of
\* the animation frames (a hidden tab)
FrameGaps == {1000, 3000, 16000}

\* gameLoop -> update: game.waveManager.update while the boss is not triggered
DirectorFrame ==
    /\ ~bossTriggered
    /\ \E gap \in FrameGaps :
         /\ now + gap <= MaxDirectorNow
         /\ now' = now + gap
         /\ \E d \in {WaveManagerUpdate(Director, now + gap)} :
              /\ wm' = d.wm
              /\ bossTriggered' = d.bossTriggered
    /\ UNCHANGED <<fireVars, ammo, projectiles, combatVars, gunship, lastRoll>>
    /\ UNCHANGED extraVars

\* gameLoop -> update once game.bossTriggered is set: the wave manager is not
\* updated any more
AfterBossFrame ==
    /\ bossTriggered
    /\ \E gap \in FrameGaps :
         /\ now + gap <= MaxDirectorNow
         /\ now' = now + gap
    /\ UNCHANGED <<fireVars, ammo, projectiles, combatVars, scenarioVars>>
    /\ UNCHANGED extraVars

\* Milliseconds between two frames when frames keep coming: a slow frame and
\* a stall
LiveGaps == {1000, 3000}

\* gameLoop -> update, as DirectorFrame, with frames that keep coming
LiveDirectorFrame ==
    /\ ~bossTriggered
    /\ player.active
    /\ \E gap \in LiveGaps :
         /\ now + gap <= MaxLiveNow
         /\ now' = now + gap
         /\ \E d \in {WaveManagerUpdate(Director, now + gap)} :
              /\ wm' = d.wm
              /\ bossTriggered' = d.bossTriggered
    /\ UNCHANGED <<fireVars, ammo, projectiles, combatVars, gunship, lastRoll>>
    /\ UNCHANGED extraVars

\* gameLoop -> update, as AfterBossFrame, with frames that keep coming
LiveAfterBossFrame ==
    /\ bossTriggered
    /\ \E gap \in LiveGaps :
         /\ now + gap <= MaxLiveNow
         /\ now' = now + gap
    /\ UNCHANGED <<fireVars, ammo, projectiles, combatVars, scenarioVars>>
    /\ UNCHANGED extraVars

(***************************************************************************)
(* Gunship                                                                 *)
(*                                                                         *)
(* Positions of the Gunship are kept in thousandths of a pixel, so that a  *)
(* speed in pixels per second times a delta in milliseconds is exact.      *)
(***************************************************************************)
\* new Gunship(x, y), as spawnSingle places it; burstStart, prevBurstStart,
\* lastGap and pushed record the bursts: when the current and the previous
\* burst began, the time between the last two shots counted, and how many
\* projectiles the current burst has pushed onto game.projectiles
NewGunship ==
    [x |-> FarAway.x * 1000, y |-> SpawnY * 1000, hovering |-> FALSE,
     driftDirection |-> 1, driftDistance |-> 0,
     burstShotsFired |-> 0, lastBurstTime |-> 0, lastFireTime |-> 0,
     burstStart |-> -1, prevBurstStart |-> -1, lastGap |-> 0, pushed |-> 0]

GunshipDescendKeepsSinking(s, deltaMs) ==
    Bind(s.y + GunshipBaseSpeed * deltaMs,
         LAMBDA y : [s EXCEPT !.y = y, !.hovering = (y >= DescendTo * 1000)])

\* Gunship.update: descent phase
GunshipDescend(s, deltaMs) ==
    IF ~s.hovering /\ s.y < DescendTo * 1000
    THEN Bind(s.y + GunshipBaseSpeed * deltaMs,
              LAMBDA y : [s EXCEPT !.y = y, !.hovering = (y >= DescendTo * 1000)])
    ELSE s

\* Gunship.update: hover and drift phase
GunshipDrift(s, deltaMs) ==
    IF s.hovering
    THEN Bind(DriftSpeed * s.driftDirection * deltaMs,
              LAMBDA drift :
                Bind(s.driftDistance + (IF drift < 0 THEN -drift ELSE drift),
                     LAMBDA dist :
                       IF dist >= DriftAmount * 1000
                       THEN [s EXCEPT !.x = @ + drift,
                                      !.driftDirection = -@,
                                      !.driftDistance = 0]
                       ELSE [s EXCEPT !.x = @ + drift, !.driftDistance = dist]))
    ELSE s

\* Enemy.canFire, with the Gunship's weapon
GunshipCanFire(s, t) == t - s.lastFireTime >= GunshipFireRate

\* Enemy.fire: the state of the enemy and the projectiles returned.  The
\* Gunship hovers far above the player's bounds, so an aimed shot has
\* dist > 0, and one projectile is returned aimed or straight down.
GunshipFire(s, t) ==
    IF ~GunshipCanFire(s, t)
    THEN [s |-> s, shots |-> <<>>]
    ELSE [s |-> [s EXCEPT !.lastFireTime = t],
          shots |-> <<EnemyProjectile(Spot(s.x \div 1000, s.y \div 1000 + 10),
                                      GunshipShotDamage)>>]

\* Gunship.update as it starts a burst: lastFireTime is set before fire() is
\* called
GunshipStartBurst(s, t) ==
    Bind(GunshipFire([s EXCEPT !.lastFireTime = t, !.lastBurstTime = t,
                               !.burstShotsFired = 1],
                     t),
         LAMBDA f :
           [s |-> [f.s EXCEPT !.prevBurstStart = s.burstStart, !.burstStart = t,
                              !.lastGap = 0, !.pushed = Len(f.shots)],
            shots |-> f.shots])

\* Gunship.update: burst fire weapon
GunshipBurst(s, t) ==
    IF ~s.hovering
    THEN [s |-> s, shots |-> <<>>]
    ELSE IF s.burstShotsFired = 0 /\ GunshipCanFire(s, t)
    THEN GunshipStartBurst(s, t)
    ELSE IF s.burstShotsFired > 0 /\ s.burstShotsFired < BurstCount
    THEN IF t - s.lastBurstTime >= BurstDelay
         THEN Bind(GunshipFire([s EXCEPT !.lastBurstTime = t,
                                         !.burstShotsFired = @ + 1],
                               t),
                   LAMBDA f :
                     [s |-> [f.s EXCEPT !.lastGap = t - s.lastBurstTime,
                                        !.pushed = @ + Len(f.shots)],
                      shots |-> f.shots])
         ELSE [s |-> s, shots |-> <<>>]
    ELSE IF s.burstShotsFired >= BurstCount
    THEN [s |-> [s EXCEPT !.burstShotsFired = 0], shots |-> <<>>]
    ELSE [s |-> s, shots |-> <<>>]

\* Gunship.update.  The descent stops below descendTo + 6, so the Gunship
\* never gets past the bottom of the canvas and is not destroyed.
GunshipUpdate(s, t, deltaMs) ==
    Bind(GunshipDrift(GunshipDescend(s, deltaMs), deltaMs),
         LAMBDA s1 : GunshipBurst(s1, t))

\* The times between two frames of the Gunship specification
GunshipGaps == {100, 150, 1300}

\* gameLoop -> update -> Gunship.update, the clock having advanced by gap;
\* deltaTime is capped at 0.1 s
GunshipFrame ==
    /\ ~crashed
    /\ player.active
    /\ \E gap \in GunshipGaps :
         /\ now + gap <= MaxGunshipNow
         /\ now' = now + gap
         /\ \E r \in {GunshipUpdate(gunship, now + gap, Min(gap, MaxDeltaMs))} :
              /\ gunship' = r.s
              /\ projectiles' = projectiles \o r.shots
    /\ UNCHANGED <<fireVars, ammo, combatVars, wm, bossTriggered, lastRoll>>
    /\ UNCHANGED extraVars

NoRoll == [type |-> "none", roll |-> 0]

(***************************************************************************)
(* The input manager                                                       *)
(*                                                                         *)
(* The keys of the edge-triggered signals: KeyE switches the weapon, KeyR  *)
(* fires a rocket.  No gamepad is connected.  seen, held and fired are     *)
(* history: the keys as the latest processed tick found them, the number   *)
(* of consecutive processed ticks that found a key down (up to             *)
(* MaxHeldTicks), and how often the key's action ran in those ticks.       *)
(***************************************************************************)
EdgeKeys == {"KeyE", "KeyR"}

\* new InputManager(): keys = {}, previousKeys = {}
NewInput ==
    [keys |-> [k \in EdgeKeys |-> FALSE],
     previousKeys |-> [k \in EdgeKeys |-> FALSE],
     signal |-> [k \in EdgeKeys |-> FALSE],
     seen |-> [k \in EdgeKeys |-> FALSE],
     held |-> [k \in EdgeKeys |-> 0],
     fired |-> [k \in EdgeKeys |-> 0]]

\* The keydown listener: this.keys[e.code] = true
KeyDown ==
    /\ \E code \in EdgeKeys : input' = [input EXCEPT !.keys[code] = TRUE]
    /\ UNCHANGED <<now, fireVars, ammo, projectiles, combatVars, scenarioVars, config,
                   frameVars, lateVars>>

\* The keyup listener: this.keys[e.code] = false
KeyUp ==
    /\ \E code \in EdgeKeys : input' = [input EXCEPT !.keys[code] = FALSE]
    /\ UNCHANGED <<now, fireVars, ammo, projectiles, combatVars, scenarioVars, config,
                   frameVars, lateVars>>

InputWasKeyHeld(inp, code) == inp.keys[code]

\* InputManager.wasKeyJustPressed
InputWasKeyJustPressed(inp, code) == inp.keys[code] /\ ~inp.previousKeys[code]

\* InputManager.update: previousKeys = { ...keys }
InputUpdate(inp) == [inp EXCEPT !.previousKeys = inp.keys]

\* The history of a tick that found the signals sw and sp
InputHistory(inp, sw, sp) ==
    Bind([KeyE |-> sw, KeyR |-> sp],
         LAMBDA sig :
           [inp EXCEPT !.signal = sig,
                       !.seen = inp.keys,
                       !.held = [k \in EdgeKeys |->
                                   IF inp.keys[k] THEN Min(inp.held[k] + 1, MaxHeldTicks)
                                                  ELSE 0],
                       !.fired = [k \in EdgeKeys |->
                                    IF inp.keys[k]
                                    THEN inp.fired[k] + (IF sig[k] THEN 1 ELSE 0)
                                    ELSE 0]])

\* update(deltaTime), from its first line to game.input.update(): the weapon
\* switch and the rocket fire on their edge-triggered signals, then the
\* input state.  Space is not pressed.
InputTick ==
    /\ player.active
    /\ ~crashed
    /\ \E sw \in {InputWasKeyJustPressed(input, "KeyE")},
          sp \in {InputWasKeyJustPressed(input, "KeyR")} :
         /\ currentWeaponIndex' =
                IF sw THEN (currentWeaponIndex + 1) % Len(PlayerWeapons)
                      ELSE currentWeaponIndex
         /\ IF sp
            THEN Fire("rocket", player.x, player.y, now, 0)
            ELSE UNCHANGED <<lastFireTime, effects, ammo, projectiles, fireLog, lastShot>>
         /\ input' = InputUpdate(InputHistory(input, sw, sp))
    /\ UNCHANGED <<now, probe, combatVars, scenarioVars, config, frameVars, lateVars>>

(***************************************************************************)
(* The canvas and the bounds of the player                                 *)
(***************************************************************************)
\* CONFIG as written in the source
NewConfig ==
    [width |-> CanvasWidth, height |-> CanvasHeight,
     top |-> BoundsTop, bottom |-> BoundsBottom,
     left |-> BoundsLeft, right |-> BoundsRight, diagonals |-> 0]

\* window.innerWidth and window.innerHeight at a resize
WindowSizes == {<<640, 480>>, <<1000, 700>>}

\* updateCanvasSize, the canvas and the bounds
Resized(c, innerWidth, innerHeight) ==
    Bind(IF innerWidth > MinWidth THEN innerWidth ELSE MinWidth,
         LAMBDA width :
           Bind(IF innerHeight > MinHeight THEN innerHeight ELSE MinHeight,
                LAMBDA height :
                  [c EXCEPT !.width = width, !.height = height,
                            !.top = 50, !.bottom = height - 50,
                            !.left = 20, !.right = width - 20]))

LeftWhereItWas(p, c) == p

\* updateCanvasSize, the player kept within the new bounds
KeptInBounds(p, c) ==
    [p EXCEPT !.x = Clamp(c.left, c.right, @), !.y = Clamp(c.top, c.bottom, @)]

\* The resize listener: updateCanvasSize()
Resize ==
    /\ \E window \in WindowSizes :
         \E c \in {Resized(config, window[1], window[2])} :
            /\ config' = c
            /\ player' = KeptInBounds(player, c)
    /\ UNCHANGED <<now, fireVars, ammo, projectiles, enemies, powerups, score, gameOver,
                   respawnTimers, crashed, spawned, sinceRespawn, pre, tally,
                   scenarioVars, input, frameVars, lateVars>>

\* InputManager.getMovementVector with the keyboard, dx and dy in
\* thousandths: no key, one key, and S with D, whose diagonal is normalised
\* to length 1 (the diagonal towards the bottom right stands for the four)
MovementVectors ==
    {<<0, 0>>, <<1000, 0>>, <<-1000, 0>>, <<0, 1000>>, <<0, -1000>>, <<707, 707>>}

\* Player.move and Player.update: v * speed * deltaTime for a component v of
\* the movement vector, rounded towards zero to a whole pixel
PlayerStepOf(v, deltaMs) ==
    IF v < 0 THEN -((((-v) * PlayerSpeed) \div 1000) * deltaMs) \div 1000
             ELSE (((v * PlayerSpeed) \div 1000) * deltaMs) \div 1000

\* Player.move(dx, dy) and the position step of Player.update
PlayerStep(p, v, deltaMs) ==
    [p EXCEPT !.x = @ + PlayerStepOf(v[1], deltaMs),
              !.y = @ + PlayerStepOf(v[2], deltaMs)]

\* update(deltaTime) with the movement keys: player.move and player.update
MoveFrame ==
    /\ ~crashed
    /\ player.active
    /\ \E v \in MovementVectors :
         /\ (v[1] # 0 /\ v[2] # 0) => config.diagonals < MaxDiagonalFrames
         /\ config' = [config EXCEPT !.diagonals =
                           IF v[1] # 0 /\ v[2] # 0 THEN @ + 1 ELSE @]
         /\ player' = PlayerUpdate(PlayerStep(player, v, MaxDeltaMs), MaxDeltaMs)
    /\ sinceRespawn' = IF sinceRespawn < 0 \/ sinceRespawn >= InvulnerabilityDuration
                       THEN sinceRespawn
                       ELSE sinceRespawn + MaxDeltaMs
    /\ UNCHANGED <<now, fireVars, ammo, projectiles, enemies, powerups, score, gameOver,
                   respawnTimers, crashed, spawned, pre, tally, scenarioVars, input,
                   frameVars, lateVars>>

\* game.player.takeDamage(amount) with an amount that takes the rest of the
\* player's health
PlayerKilled ==
    /\ ~crashed
    /\ player.active
    /\ player.health > 0
    /\ ~player.invulnerable
    /\ \E g \in {PlayerTakeDamage(Game, player.health)} :
         /\ player' = g.player
         /\ gameOver' = g.gameOver
         /\ respawnTimers' = g.timers
    /\ UNCHANGED <<now, fireVars, ammo, projectiles, enemies, powerups, score,
                   crashed, spawned, sinceRespawn, pre, tally, scenarioVars, extraVars>>

(***************************************************************************)
(* The game loop                                                           *)
(***************************************************************************)
\* init(): game.lastTime = performance.now(), at performance.now() = 0; the
\* history fields are those of the latest callback: the time elapsed since
\* the callback before it, and the pixels its update moved the ship
NewLoop ==
    [lastTime |-> 0, deltaTime |-> 0, elapsed |-> 0, moved |-> <<0, 0>>, frames |-> 0]

\* Milliseconds between two animation-frame callbacks: a frame at 60 Hz, the
\* cap, one millisecond above it, and a stall
CallbackGaps == {16, 100, 101, 1000}

UncappedDelta(elapsed) == elapsed

\* gameLoop: Math.min(game.deltaTime, 0.1), in milliseconds
CappedDelta(elapsed) == Min(elapsed, MaxDeltaMs)

\* gameLoop(currentTime) and the update(game.deltaTime) it calls, with the
\* movement keys: player.move and player.update
GameLoop ==
    /\ ~crashed
    /\ loop.frames < MaxLoopFrames
    /\ \E gap \in CallbackGaps, v \in MovementVectors :
         \E delta \in {CappedDelta(now + gap - loop.lastTime)} :
           \E p \in {IF player.active
                     THEN PlayerUpdate(PlayerStep(player, v, delta), delta)
                     ELSE player} :
              /\ now' = now + gap
              /\ player' = p
              /\ loop' = [lastTime |-> now + gap, deltaTime |-> delta,
                          elapsed |-> now + gap - loop.lastTime,
                          moved |-> <<p.x - player.x, p.y - player.y>>,
                          frames |-> loop.frames + 1]
              /\ sinceRespawn' =
                     IF sinceRespawn < 0 \/ sinceRespawn >= InvulnerabilityDuration
                     THEN sinceRespawn
                     ELSE sinceRespawn + delta
    /\ UNCHANGED <<fireVars, ammo, projectiles, enemies, powerups, score, gameOver,
                   respawnTimers, crashed, spawned, pre, tally, scenarioVars,
                   input, config, fx, rocket, order, lateVars>>

(***************************************************************************)
(* Effects and particles.  One effect of game.effects is followed from the *)
(* push that creates it to its removal; game.particles holds the age and   *)
(* the lifetime of every particle.                                         *)
(***************************************************************************)
EffectKinds == {"small", "large", "impact", "muzzle"}

\* createSmallExplosion, createLargeExplosion, createImpactEffect and
\* createMuzzleFlash: the durations of the frames and the particle
\* configuration (count 0 and lifetime 0 where there is none)
EffectConfig(kind) ==
    CASE kind = "small" -> [frames |-> <<50, 50, 60, 60, 70, 80>>, particles |-> TRUE,
                            count |-> 8, lifetime |-> 400]
      [] kind = "large" -> [frames |-> <<60, 60, 70, 70, 80, 100>>, particles |-> TRUE,
                            count |-> 20, lifetime |-> 600]
      [] kind = "impact" -> [frames |-> <<40, 40>>, particles |-> TRUE,
                             count |-> 3, lifetime |-> 200]
      [] kind = "muzzle" -> [frames |-> <<30, 20>>, particles |-> FALSE,
                             count |-> 0, lifetime |-> 0]

\* No effect pushed yet
NoEffect ==
    [kind |-> "none", frames |-> <<>>, hasConfig |-> FALSE, count |-> 0,
     lifetime |-> 0, currentFrame |-> 0, frameTimer |-> 0,
     particlesSpawned |-> FALSE, active |-> FALSE, present |-> FALSE,
     particles |-> <<>>, added |-> 0, bursts |-> 0, burstFrom |-> -1]

\* new Effect(x, y, config), pushed onto game.effects; added, bursts and
\* burstFrom are history: the particles the effect has pushed, its
\* spawnParticles calls, and currentFrame before the update of the latest call
NewEffect(kind, particles) ==
    [kind |-> kind, frames |-> EffectConfig(kind).frames,
     hasConfig |-> EffectConfig(kind).particles, count |-> EffectConfig(kind).count,
     lifetime |-> EffectConfig(kind).lifetime, currentFrame |-> 0, frameTimer |-> 0,
     particlesSpawned |-> FALSE, active |-> TRUE, present |-> TRUE,
     particles |-> particles, added |-> 0, bursts |-> 0, burstFrom |-> -1]

\* new Particle(x, y, config)
NewParticle(lifetime) == [age |-> 0, lifetime |-> lifetime, active |-> TRUE]

\* Effect.spawnParticles: count || 8 particles pushed onto game.particles
SpawnParticles(e, from) ==
    Bind(IF e.count = 0 THEN 8 ELSE e.count,
         LAMBDA count :
           [e EXCEPT !.particles = @ \o [k \in 1..count |-> NewParticle(e.lifetime)],
                     !.added = @ + count,
                     !.bursts = @ + 1,
                     !.burstFrom = from])

SpawnsParticlesInEveryFrame(e) == e.currentFrame >= 1 /\ e.hasConfig

\* Effect.update: currentFrame === 1 && !particlesSpawned && particleConfig
SpawnsParticles(e) == e.currentFrame = 1 /\ ~e.particlesSpawned /\ e.hasConfig

\* Effect.update(deltaTime)
EffectUpdate(e, deltaMs) ==
    IF e.currentFrame >= Len(e.frames)
    THEN [e EXCEPT !.active = FALSE]
    ELSE IF e.frameTimer + deltaMs >= e.frames[e.currentFrame + 1]
         THEN Bind([e EXCEPT !.currentFrame = @ + 1, !.frameTimer = 0],
                   LAMBDA e1 :
                     IF SpawnsParticles(e1)
                     THEN [SpawnParticles(e1, e.currentFrame)
                               EXCEPT !.particlesSpawned = TRUE]
                     ELSE e1)
         ELSE [e EXCEPT !.frameTimer = @ + deltaMs]

\* Particle.update(deltaTime)
ParticleUpdate(p, deltaMs) ==
    [p EXCEPT !.age = @ + deltaMs, !.active = (p.age + deltaMs < p.lifetime)]

\* Milliseconds of a frame: a frame at 60 Hz, a slow frame, and the cap
EffectDeltas == {16, 40, MaxDeltaMs}

\* update(deltaTime): the effects updated, then the particles, then the
\* inactive ones removed from game.effects and game.particles
CosmeticsUpdated(f, deltaMs) ==
    Bind(IF f.present THEN EffectUpdate(f, deltaMs) ELSE f,
         LAMBDA e :
           [e EXCEPT !.present = e.present /\ e.active,
                     !.particles =
                         SelectSeq([k \in 1..Len(e.particles) |->
                                       ParticleUpdate(e.particles[k], deltaMs)],
                                   IsActive)])

\* A frame of the game loop with an effect or a particle in the game
EffectsFrame ==
    /\ ~crashed
    /\ player.active
    /\ fx.present \/ Len(fx.particles) > 0
    /\ \E deltaMs \in EffectDeltas : fx' = CosmeticsUpdated(fx, deltaMs)
    /\ UNCHANGED <<now, fireVars, ammo, projectiles, combatVars, scenarioVars,
                   input, config, loop, rocket, order, lateVars>>

\* game.effects.push(create...Effect(x, y)) by a weapon, a death or a hit,
\* once the effect before it has been removed
CreateEffect ==
    /\ ~fx.present
    /\ Len(fx.particles) <= MaxLingering
    /\ \E kind \in EffectKinds : fx' = NewEffect(kind, fx.particles)
    /\ UNCHANGED <<now, fireVars, ammo, projectiles, combatVars, scenarioVars,
                   input, config, loop, rocket, order, lateVars>>

\* Milliseconds of a frame of the game loop at its cap and of a slow frame
CosmeticDeltas == {MaxDeltaMs, 40}

\* gameLoop: a frame with a positive deltaTime. update(deltaTime) returns at
\* once when the player is inactive; otherwise Player.update, the effects'
\* and the particles' updates and the removal of the inactive ones.
CosmeticTick ==
    /\ ~crashed
    /\ \E deltaMs \in CosmeticDeltas :
         IF player.active
         THEN /\ player' = PlayerUpdate(player, deltaMs)
              /\ fx' = CosmeticsUpdated(fx, deltaMs)
         ELSE UNCHANGED <<player, fx>>
    /\ UNCHANGED <<now, fireVars, ammo, projectiles, enemies, powerups, score,
                   gameOver, respawnTimers, crashed, spawned, sinceRespawn, pre,
                   tally, scenarioVars, input, config, loop, rocket, order, lateVars>>

\* An effect pushed by a weapon, a hit or an enemy's death: all of them run
\* inside update(), that is while the player is active
EffectPushed ==
    /\ player.active
    /\ CreateEffect

\* A hit that takes the rest of the player's health: Player.takeDamage, and
\* Player.die pushing createLargeExplosion onto game.effects before it
\* takes the life
PlayerDiesInExplosion ==
    /\ ~crashed
    /\ player.active
    /\ player.health > 0
    /\ ~player.invulnerable
    /\ ~fx.present
    /\ Len(fx.particles) <= MaxLingering
    /\ \E g \in {PlayerTakeDamage(Game, player.health)} :
         /\ player' = g.player
         /\ gameOver' = g.gameOver
         /\ respawnTimers' = g.timers
    /\ fx' = NewEffect("large", fx.particles)
    /\ UNCHANGED <<now, fireVars, ammo, projectiles, enemies, powerups, score,
                   crashed, spawned, sinceRespawn, pre, tally, scenarioVars,
                   input, config, loop, rocket, order, lateVars>>

(***************************************************************************)
(* The homing rocket.  The rocket is launched straight up and its target   *)
(* stands on the rocket's vertical line, so every vector of Rocket.update  *)
(* lies along one axis and its square root is exact.  Positions of the     *)
(* rocket are in 1/10000 px and its velocities in 1/10 px/s, which makes   *)
(* the position step v * deltaTime exact for a delta in milliseconds.      *)
(***************************************************************************)
\* 1/10000 px in a pixel: 1/10 px/s times a millisecond
Fine == 10 * 1000

Abs(a) == IF a < 0 THEN -a ELSE a

Sign(a) == IF a < 0 THEN -1 ELSE IF a > 0 THEN 1 ELSE 0

\* Math.sqrt(dx * dx + dy * dy) for a vector along one axis
AxisNorm(dx, dy) == Abs(dx) + Abs(dy)

\* a * num / den, rounded towards zero
Scaled(a, num, den) ==
    IF a < 0 THEN -(((-a) * num) \div den) ELSE (a * num) \div den

\* No rocket in game.projectiles
NoRocket ==
    [x |-> 0, y |-> 0, vx |-> 0, vy |-> 0, age |-> 0, active |-> FALSE,
     homed |-> FALSE, prevErr |-> -1, err |-> -1, frames |-> 0]

\* RocketLauncher.createProjectiles: new Rocket(x, y - 10, {speed: 400, ...});
\* homed, prevErr and err are history: whether the latest update steered, and
\* the heading error before it and after its frame
NewRocket(x, y) ==
    [x |-> x * Fine, y |-> (y - 10) * Fine, vx |-> 0, vy |-> -(RocketSpeed * 10),
     age |-> 0, active |-> TRUE, homed |-> FALSE, prevErr |-> -1, err |-> -1,
     frames |-> 0]

\* The index in game.enemies of the first active enemy (game.enemies holds at
\* most one in this part), 0 if there is none
NearestEnemy(es) ==
    IF \E i \in 1..Len(es) : es[i].active
    THEN CHOOSE i \in 1..Len(es) : es[i].active /\ \A j \in 1..(i - 1) : ~es[j].active
    ELSE 0

\* The angle in degrees between the rocket's velocity and the line from the
\* rocket to enemy e, both along one axis: 0 or 180, and -1 where there is
\* no such angle (no enemy, the rocket at the enemy's centre or at rest)
HeadingError(r, es) ==
    IF NearestEnemy(es) = 0
    THEN -1
    ELSE Bind(Sign(r.vx) * Sign(es[NearestEnemy(es)].x * Fine - r.x)
                + Sign(r.vy) * Sign(es[NearestEnemy(es)].y * Fine - r.y),
              LAMBDA dot : IF dot > 0 THEN 0 ELSE IF dot < 0 THEN 180 ELSE -1)

\* Rocket.update: this.age >= this.homingActivation && game.enemies.length > 0
Steers(r, es) == r.age >= HomingActivationMs /\ Len(es) > 0

\* Rocket.update, the homing branch towards the enemy at (ex, ey) with
\* newSpeed: v += (targetV - v) * homingStrength
Blend(r, ex, ey, newSpeed) ==
    Bind(AxisNorm(ex - r.x, ey - r.y),
         LAMBDA dist :
           IF dist > 0
           THEN [r EXCEPT
                   !.vx = @ + Scaled(((ex - r.x) \div dist) * newSpeed - @,
                                     HomingStrengthTenths, 10),
                   !.vy = @ + Scaled(((ey - r.y) \div dist) * newSpeed - @,
                                     HomingStrengthTenths, 10)]
           ELSE r)

RocketSteerCoasts(r, es, deltaMs) ==
    IF Steers(r, es) /\ NearestEnemy(es) # 0
    THEN Blend(r, es[NearestEnemy(es)].x * Fine, es[NearestEnemy(es)].y * Fine,
               AxisNorm(r.vx, r.vy) + (RocketAcceleration * 10 * deltaMs) \div 1000)
    ELSE r

\* Rocket.update, the velocity: acceleration, then homing or straight flight
RocketSteer(r, es, deltaMs) ==
    Bind(AxisNorm(r.vx, r.vy),
         LAMBDA currentSpeed :
           Bind(currentSpeed + (RocketAcceleration * 10 * deltaMs) \div 1000,
                LAMBDA newSpeed :
                  IF Steers(r, es)
                  THEN IF NearestEnemy(es) # 0
                       THEN Blend(r, es[NearestEnemy(es)].x * Fine,
                                  es[NearestEnemy(es)].y * Fine, newSpeed)
                       ELSE r
                  ELSE IF currentSpeed > 0
                       THEN [r EXCEPT !.vx = (@ \div currentSpeed) * newSpeed,
                                      !.vy = (@ \div currentSpeed) * newSpeed]
                       ELSE r))

\* Rocket.update(deltaTime): age, velocity, position, and destroy() off screen
RocketUpdate(r, es, deltaMs) ==
    Bind(RocketSteer([r EXCEPT !.age = @ + deltaMs], es, deltaMs),
         LAMBDA r1 :
           Bind([r1 EXCEPT !.x = @ + r1.vx * deltaMs, !.y = @ + r1.vy * deltaMs],
                LAMBDA r2 :
                  [r2 EXCEPT !.active =
                       ~(\/ r2.y < -50 * Fine
                         \/ r2.y > (config.height + 50) * Fine
                         \/ r2.x < -50 * Fine
                         \/ r2.x > (config.width + 50) * Fine)]))

\* Rocket.update(deltaTime) for the rocket p of game.projectiles, whose
\* position is in whole pixels and whose velocity is in whole px/s
RocketFlight(p, es, deltaMs) ==
    Bind(RocketUpdate([NoRocket EXCEPT !.x = p.x * Fine, !.y = p.y * Fine,
                                       !.vx = p.vx * 10, !.vy = p.vy * 10,
                                       !.age = p.age, !.active = TRUE],
                      es, deltaMs),
         LAMBDA r : [p EXCEPT !.x = r.x \div Fine, !.y = r.y \div Fine,
                              !.vx = r.vx \div 10, !.vy = r.vy \div 10,
                              !.age = r.age, !.active = r.active])

\* projectile.collidesWith(enemy) for the rocket
RocketCollidesWith(r, e) ==
    AxisNorm(r.x - e.x * Fine, r.y - e.y * Fine)
        < (RocketRadius + e.hitboxRadius) * Fine

\* Milliseconds of a frame: a slow frame and the cap
RocketDeltas == {50, MaxDeltaMs}

\* The rows of the canvas a target stands on
TargetYs == 150..200

\* The rocket key with an enemy standing straight ahead of the ship:
\* game.projectiles.push(...game.player.fireRocket(performance.now()))
RocketLaunch ==
    /\ ~rocket.active
    /\ rocket.frames = 0
    /\ enemies = <<>>
    /\ player.active
    /\ ammo > 0
    /\ \E ty \in TargetYs :
         \E es \in {<<Enemy("Scout", Spot(player.x, ty))>>} :
            /\ enemies' = es
            /\ rocket' = [NewRocket(player.x, player.y)
                              EXCEPT !.err = HeadingError(NewRocket(player.x, player.y), es)]
    /\ ammo' = ammo - 1
    /\ UNCHANGED <<now, fireVars, projectiles, player, powerups, score, gameOver,
                   respawnTimers, crashed, spawned, sinceRespawn, pre, tally,
                   scenarioVars, input, config, loop, fx, order, lateVars>>

\* update(deltaTime) with the rocket in flight and an enemy that stands
\* still: Rocket.update, handleCollisions for the rocket, and the removal of
\* the inactive rocket and enemy
RocketFrame ==
    /\ ~crashed
    /\ player.active
    /\ rocket.active
    /\ rocket.frames < MaxRocketFrames
    /\ \E deltaMs \in RocketDeltas, rolls \in DropRolls :
         \E r \in {RocketUpdate(rocket, enemies, deltaMs)} :
           \E hit \in {r.active /\ NearestEnemy(enemies) # 0
                                /\ RocketCollidesWith(r, enemies[1])} :
             \E g \in {IF hit THEN EnemyTakeDamage([Game EXCEPT !.tally.impact = @ + 1],
                                                     1, RocketDamage, rolls, 1)
                              ELSE Game} :
                /\ enemies' = SelectSeq(g.enemies, IsActive)
                /\ powerups' = g.powerups
                /\ score' = g.score
                /\ tally' = g.tally
                /\ rocket' = [r EXCEPT !.active = r.active /\ ~hit,
                                       !.homed = Steers([rocket EXCEPT !.age = @ + deltaMs],
                                                        enemies)
                                                 /\ NearestEnemy(enemies) # 0,
                                       !.prevErr = rocket.err,
                                       !.err = HeadingError(r, SelectSeq(g.enemies, IsActive)),
                                       !.frames = @ + 1]
    /\ UNCHANGED <<now, fireVars, ammo, projectiles, player, gameOver, respawnTimers,
                   crashed, spawned, sinceRespawn, pre, scenarioVars,
                   input, config, loop, fx, order, lateVars>>

(***************************************************************************)
(* Formations: one spawn event of a group                                  *)
(***************************************************************************)
\* No event recorded yet
NoEvent == [kind |-> "none", events |-> 0]

\* Math.random() * (CONFIG.canvas.width - 100) + 50 of spawnSingle
SpawnColumns == {100, 700}

\* The formations spawnEnemyGroup has a case for
Formations == {"single", "line", "v"}

SpawnPointsLineOfTwo(formation, x) ==
    CASE formation = "single" -> <<Spot(x, -20)>>
      [] formation = "line" ->
             [i \in 1..2 |-> Spot(config.width \div 2 - 60 + (i - 1) * 60, -20)]
      [] OTHER -> <<>>

\* spawnSingle, spawnLine and spawnVFormation: the (x, y) of their
\* spawnEnemyAt calls, in order; x is Math.random() * (width - 100) + 50
SpawnPoints(formation, x) ==
    CASE formation = "single" -> <<Spot(x, -20)>>
      [] formation = "line" ->
             [i \in 1..3 |-> Spot(config.width \div 2 - 60 + (i - 1) * 60, -20)]
      [] formation = "v" ->
             <<Spot(config.width \div 2, -20),
               Spot(config.width \div 2 - 50, -40),
               Spot(config.width \div 2 + 50, -40),
               Spot(config.width \div 2 - 50 * 2, -60),
               Spot(config.width \div 2 + 50 * 2, -60)>>
      [] OTHER -> <<>>

\* spawnEnemyAt(type, x, y): an enemy of a known class is pushed
SpawnEnemyAt(es, type, spot) ==
    IF type \in EnemyTypes THEN Append(es, Enemy(type, spot)) ELSE es

RECURSIVE SpawnAt(_, _, _, _)
\* The spawnEnemyAt calls of one formation, from the k-th on
SpawnAt(es, type, spots, k) ==
    IF k > Len(spots)
    THEN es
    ELSE SpawnAt(SpawnEnemyAt(es, type, spots[k]), type, spots, k + 1)

\* spawnEnemyGroup(group)
SpawnEnemyGroup(es, type, formation, x) ==
    SpawnAt(es, type, SpawnPoints(formation, x), 1)

\* WaveManager.update, the callback of enemyGroups.forEach for a group that
\* is due: this.spawnEnemyGroup(group); group.spawned++.  The event records
\* the group, the length of game.enemies before, and the events so far.
SpawnEvent ==
    /\ event.events < MaxSpawnEvents
    /\ \E type \in EnemyTypes, formation \in Formations, x \in SpawnColumns :
         /\ enemies' = SpawnEnemyGroup(enemies, type, formation, x)
         /\ event' = [kind |-> "spawn", type |-> type, formation |-> formation,
                      before |-> Len(enemies),
                      events |-> event.events + 1]
    /\ UNCHANGED <<now, fireVars, ammo, projectiles, player, powerups, score, gameOver,
                   respawnTimers, crashed, spawned, sinceRespawn, pre, tally,
                   scenarioVars, input, config, frameVars>>

(***************************************************************************)
(* The order of a frame.  The enemies of game.enemies carry two history    *)
(* fields: the update() calls and the collision passes each has been in.   *)
(* The sine offset of a Scout's x (at most 50 px) and the Scouts' shots,   *)
(* which fall straight down their own columns, are left out: the spawn     *)
(* columns are far from the ship's column.                                 *)
(***************************************************************************)
\* History: the enemies the latest frame's wave manager update pushed
NewOrder == [pushed |-> 0]

\* spawnEnemyAt(type, x, y): the enemy pushed onto game.enemies
SpawnedEnemy(type, spot) == Enemy(type, spot) @@ [updates |-> 0, checks |-> 0]

RECURSIVE Pushed(_, _, _, _)
\* The enemies that spawnEnemyGroup pushed for the groups from k on in one
\* WaveManager.update, from the groups before and after it
Pushed(old, new, k, x) ==
    IF k > Len(new)
    THEN <<>>
    ELSE [j \in 1..(new[k].added - old[k].added) |->
              SpawnedEnemy(new[k].type, Spot(x, SpawnY))]
         \o Pushed(old, new, k + 1, x)

\* Scout.update(deltaTime): the descent, and destroy() below the canvas
ScoutUpdate(e, deltaMs) ==
    Bind(e.y + (ScoutBaseSpeed * deltaMs) \div 1000,
         LAMBDA y : [e EXCEPT !.y = y,
                              !.active = ~(y > config.height + 50),
                              !.updates = @ + 1])

\* update(deltaTime), game.enemies.forEach: enemy.update of the active ones
EnemiesUpdate(es, deltaMs) ==
    [i \in 1..Len(es) |-> IF es[i].active THEN ScoutUpdate(es[i], deltaMs) ELSE es[i]]

\* The game state a frame works on: that of a collision pass, the director,
\* and the enemies the frame's wave manager update has pushed
OrderGame == Game @@ [scene |-> Director, pushed |-> 0]

\* Milliseconds between two frames: the cap and a stall
OrderGaps == {MaxDeltaMs, 500}

\* update(deltaTime) after the player's update: the enemies' updates,
\* handleCollisions, the removal of the inactive enemies, and then
\* game.waveManager.update while the boss is not triggered
UpdateInOrder(g, t, x, deltaMs, rolls) ==
    Bind(HandleCollisions([g EXCEPT !.enemies = EnemiesUpdate(g.enemies, deltaMs)],
                          rolls),
         LAMBDA g1 :
           Bind(SelectSeq([i \in 1..Len(g1.enemies) |->
                              [g1.enemies[i] EXCEPT !.checks = @ + 1]],
                          IsActive),
                LAMBDA es :
                  Bind(IF g.scene.bossTriggered THEN g.scene
                       ELSE WaveManagerUpdate(g.scene, t),
                       LAMBDA d :
                         Bind(IF g.scene.wm.inBreak \/ ~g.scene.wm.waveActive
                                 \/ g.scene.bossTriggered
                              THEN <<>>
                              ELSE Pushed(g.scene.wm.enemyGroups,
                                          d.wm.enemyGroups, 1, x),
                              LAMBDA new :
                                [g1 EXCEPT !.enemies = es \o new,
                                           !.scene = d,
                                           !.pushed = Len(new)]))))

\* gameLoop -> update(deltaTime) at performance.now() = now + gap
OrderFrame ==
    /\ ~crashed
    /\ player.active
    /\ \E gap \in OrderGaps, x \in SpawnColumns :
         /\ now + gap <= MaxOrderNow
         /\ now' = now + gap
         /\ \E rolls \in DropRolls, p0 \in {PlayerUpdate(player, CappedDelta(gap))} :
              \E g \in {UpdateInOrder([OrderGame EXCEPT !.player = p0], now + gap, x,
                                      CappedDelta(gap), rolls)} :
                 /\ player' = g.player
                 /\ enemies' = g.enemies
                 /\ powerups' = SelectSeq(g.powerups, IsActive)
                 /\ score' = g.score
                 /\ gameOver' = g.gameOver
                 /\ respawnTimers' = g.timers
                 /\ tally' = g.tally
                 /\ wm' = g.scene.wm
                 /\ bossTriggered' = g.scene.bossTriggered
                 /\ order' = [pushed |-> g.pushed]
    /\ UNCHANGED <<fireVars, ammo, projectiles, crashed, spawned, sinceRespawn, pre,
                   gunship, lastRoll, input, config, loop, fx, rocket, lateVars>>

(***************************************************************************)
(* Enemies leaving the playfield.  A Kamikaze carries its position in      *)
(* 1/10000 px (fx, fy) and its velocity in 1/10 px/s (vx, vy); x and y are *)
(* the whole pixels of its position.  Square roots are rounded down to     *)
(* 1/10 px and 1/10 px/s.                                                  *)
(***************************************************************************)
\* new Kamikaze(x, y) after some flight: at spot, with velocity (vx, vy)
FlyingKamikaze(spot, vx, vy) ==
    SpawnedEnemy("Kamikaze", spot)
      @@ [fx |-> spot.x * Fine, fy |-> spot.y * Fine, vx |-> vx, vy |-> vy]

\* Math.sqrt(dx * dx + dy * dy), dx and dy in tenths
Norm(dx, dy) == SqrtBetween(dx * dx + dy * dy, 0, 2 * Fine)

\* Kamikaze.update, the chase: the velocity blended with the target velocity
\* towards the player dx, dy (1/10 px) away, then rescaled to the new speed
KamikazeChase(e, dx, dy, deltaMs) ==
    Bind(Norm(dx, dy),
         LAMBDA dist :
           IF dist > 0
           THEN Bind([e EXCEPT
                        !.vx = @ + Scaled(Scaled(dx, KamikazeMaxSpeed * 10, dist) - @,
                                          TrackingStrengthTenths * deltaMs, Fine),
                        !.vy = @ + Scaled(Scaled(dy, KamikazeMaxSpeed * 10, dist) - @,
                                          TrackingStrengthTenths * deltaMs, Fine)],
                     LAMBDA e1 :
                       Bind(Norm(e1.vx, e1.vy),
                            LAMBDA currentSpeed :
                              IF currentSpeed > 0
                              THEN Bind(Min(currentSpeed
                                              + (KamikazeAcceleration * 10 * deltaMs)
                                                  \div 1000,
                                            KamikazeMaxSpeed * 10),
                                        LAMBDA newSpeed :
                                          [e1 EXCEPT
                                             !.vx = Scaled(@, newSpeed, currentSpeed),
                                             !.vy = Scaled(@, newSpeed, currentSpeed)])
                              ELSE e1))
           ELSE e)

KamikazeLeavesByDying(e) ==
    Bind(\/ e.fy > (config.height + 50) * Fine
         \/ e.fy < -50 * Fine
         \/ e.fx < -50 * Fine
         \/ e.fx > (config.width + 50) * Fine,
         LAMBDA out :
           [e EXCEPT !.x = e.fx \div Fine,
                     !.y = e.fy \div Fine,
                     !.active = ~out,
                     !.deaths = IF out THEN @ + 1 ELSE @])

\* Kamikaze.update, the end: destroy() beyond the margin of 50 px
KamikazeLeaves(e) ==
    [e EXCEPT !.x = e.fx \div Fine,
              !.y = e.fy \div Fine,
              !.active = ~(\/ e.fy > (config.height + 50) * Fine
                           \/ e.fy < -50 * Fine
                           \/ e.fx < -50 * Fine
                           \/ e.fx > (config.width + 50) * Fine)]

\* Kamikaze.update(deltaTime), the player being p
KamikazeUpdate(e, p, deltaMs) ==
    IF ~p.active
    THEN KamikazeLeaves([e EXCEPT !.fy = @ + e.vy * deltaMs, !.updates = @ + 1])
    ELSE Bind(KamikazeChase(e, Scaled(p.x * Fine - e.fx, 1, 1000),
                            Scaled(p.y * Fine - e.fy, 1, 1000), deltaMs),
              LAMBDA e1 :
                KamikazeLeaves([e1 EXCEPT !.fx = @ + e1.vx * deltaMs,
                                          !.fy = @ + e1.vy * deltaMs,
                                          !.updates = @ + 1]))

\* update(deltaTime), game.enemies.forEach: enemy.update of the active ones,
\* Scouts and Kamikazes
FlightUpdate(es, p, deltaMs) ==
    [i \in 1..Len(es) |->
       IF ~es[i].active THEN es[i]
       ELSE IF es[i].type = "Kamikaze" THEN KamikazeUpdate(es[i], p, deltaMs)
       ELSE ScoutUpdate(es[i], deltaMs)]

\* The enemies the model lets come down the playfield, the ship being at
\* (400, 500): a Scout about to leave in a far column, one a few frames
\* higher, one about to leave with another about to ram the ship, a Kamikaze
\* that has missed the ship at full speed, and one diving at the ship
Descents ==
    {<<SpawnedEnemy("Scout", Spot(100, 640))>>,
     <<SpawnedEnemy("Scout", Spot(700, 620))>>,
     <<SpawnedEnemy("Scout", Spot(100, 640)), SpawnedEnemy("Scout", Spot(400, 460))>>,
     <<FlyingKamikaze(Spot(440, 540), 0, KamikazeMaxSpeed * 10)>>,
     <<FlyingKamikaze(Spot(400, 380), 0, KamikazeInitialVy * 10)>>}

\* Some frames in which the enemies of a descent came down the playfield
Descend ==
    /\ ~crashed
    /\ Len(enemies) = 0
    /\ event.events < MaxLeaveEvents
    /\ \E es \in Descents : enemies' = es
    /\ event' = [kind |-> "descent", events |-> event.events + 1]
    /\ UNCHANGED <<now, fireVars, ammo, projectiles, player, powerups, score, gameOver,
                   respawnTimers, crashed, spawned, sinceRespawn, pre, tally,
                   scenarioVars, input, config, frameVars>>

\* The indices of the enemies that were active in before and are not in after
Deactivated(before, after) ==
    {i \in 1..Len(before) : before[i].active /\ ~after[i].active}

RECURSIVE DeathsOf(_, _)
\* The onDeath calls of the enemies of es with an index in is
DeathsOf(es, is) ==
    IF is = {} THEN 0
    ELSE Bind(CHOOSE i \in is : TRUE,
              LAMBDA i : es[i].deaths + DeathsOf(es, is \ {i}))

\* Milliseconds between two frames of a descent
LeaveGaps == {40, MaxDeltaMs}

\* gameLoop -> update(deltaTime): the enemies' updates, handleCollisions and
\* the removal of the inactive enemies.  event is history: the enemies the
\* updates deactivated (left) and their classes (leftTypes), the onDeath
\* calls of those (leftDeaths) and of all (deaths), and what the frame did
\* to the score, the effects and the power-ups.
LeaveFrame ==
    /\ ~crashed
    /\ player.active
    /\ Len(enemies) > 0
    /\ event.events < MaxLeaveEvents
    /\ \E gap \in LeaveGaps, rolls \in DropRolls :
         \E p0 \in {PlayerUpdate(player, CappedDelta(gap))} :
           \E flown \in {FlightUpdate(enemies, p0, CappedDelta(gap))} :
             \E g \in {HandleCollisions([Game EXCEPT !.player = p0,
                                                     !.enemies = flown], rolls)} :
                /\ now' = now + gap
                /\ player' = g.player
                /\ enemies' = SelectSeq(g.enemies, IsActive)
                /\ powerups' = SelectSeq(g.powerups, IsActive)
                /\ score' = g.score
                /\ gameOver' = g.gameOver
                /\ respawnTimers' = g.timers
                /\ crashed' = g.crashed
                /\ tally' = g.tally
                /\ event' = [kind |-> "frame",
                             events |-> event.events + 1,
                             left |-> Cardinality(Deactivated(enemies, flown)),
                             leftTypes |-> {enemies[i].type :
                                              i \in Deactivated(enemies, flown)},
                             leftDeaths |-> DeathsOf(g.enemies,
                                                     Deactivated(enemies, flown)),
                             deaths |-> DeathsOf(g.enemies, 1..Len(g.enemies)),
                             scored |-> g.score - score,
                             effects |-> g.tally.impact + g.tally.small
                                           + g.tally.large,
                             drops |-> g.tally.drops,
                             dropped |-> Len(g.powerups) - Len(powerups)]
    /\ UNCHANGED <<fireVars, ammo, projectiles, spawned, sinceRespawn, pre,
                   scenarioVars, input, config, frameVars>>

(***************************************************************************)
(* The removal of inactive entities.  game.effects is the effect fx, if    *)
(* present, and game.particles is fx.particles; the effects that a         *)
(* collision pass pushes are counted in the tally.  Positions are whole    *)
(* pixels.                                                                 *)
(***************************************************************************)
\* Projectile.update(deltaTime)
ProjectileUpdate(p, deltaMs) ==
    Bind([p EXCEPT !.x = @ + Scaled(p.vx, deltaMs, 1000),
                   !.y = @ + Scaled(p.vy, deltaMs, 1000)],
         LAMBDA q : [q EXCEPT !.active = ~(\/ q.y < -50
                                           \/ q.y > config.height + 50
                                           \/ q.x < -50
                                           \/ q.x > config.width + 50)])

\* PowerUp.update(deltaTime): vy = 80 px/s
PowerUpUpdate(p, deltaMs) ==
    Bind(p.y + (PowerUpSpeed * deltaMs) \div 1000,
         LAMBDA y : [p EXCEPT !.y = y, !.active = ~(y > config.height + 50)])

\* update(deltaTime), the forEach loops: entity.update of the active ones
UpdateActive(entities, Update(_)) ==
    [i \in 1..Len(entities) |->
       IF entities[i].active THEN Update(entities[i]) ELSE entities[i]]

KeepsAll(entities) == entities

\* update(deltaTime): game.x = game.x.filter(e => e.active)
Pruned(entities) == SelectSeq(entities, IsActive)

\* What the model puts on the playfield at once: one of the descents of
\* enemies; a sniper round about to leave at the top, an enemy's shot on the
\* ship, or both; a power-up on the ship or about to leave at the bottom;
\* and an effect of one of the four kinds, or none
SceneProjectiles ==
    {<<>>,
     CreateProjectiles("sniper", 100, -30, 0),
     <<EnemyProjectile(OnPlayer, ScoutShotDamage)>>,
     CreateProjectiles("sniper", 100, -30, 0)
        \o <<EnemyProjectile(OnPlayer, ScoutShotDamage)>>}

ScenePowerUps ==
    {<<>>,
     <<PowerUp(OnPlayer.x, OnPlayer.y, "health")>>,
     <<PowerUp(700, 645, "rocket_ammo")>>}

SceneEffects == {NoEffect} \cup {NewEffect(kind, <<>>) : kind \in {"impact", "muzzle"}}

\* Some frames that left these entities on an empty playfield
Populate ==
    /\ ~crashed
    /\ player.active
    /\ event.events < MaxPruneEvents
    /\ Len(enemies) = 0 /\ Len(projectiles) = 0 /\ Len(powerups) = 0
    /\ ~fx.present /\ Len(fx.particles) = 0
    /\ \E es \in Descents, ps \in SceneProjectiles, us \in ScenePowerUps,
          e \in SceneEffects :
         /\ enemies' = es
         /\ projectiles' = ps
         /\ powerups' = us
         /\ fx' = e
    /\ event' = [kind |-> "scene", events |-> event.events + 1]
    /\ UNCHANGED <<now, fireVars, ammo, player, score, gameOver, respawnTimers,
                   crashed, spawned, sinceRespawn, pre, tally, scenarioVars, input,
                   config, loop, rocket, order>>

\* The lengths of the five collections
Sizes(ps, es, e, us) ==
    [projectiles |-> Len(ps), enemies |-> Len(es),
     effects |-> IF e.present THEN 1 ELSE 0, particles |-> Len(e.particles),
     powerups |-> Len(us)]

\* Milliseconds of a frame of the pruning specification
PruneDeltas == {40, MaxDeltaMs}

\* gameLoop -> update(deltaTime): the updates of the player, the projectiles,
\* the enemies, the effects, the particles and the power-ups, then
\* handleCollisions, then the five filters.  event is history: the sizes of
\* the collections before the frame (old) and after the updates (updated),
\* the collections as the filters found them (found), and the ship's health
\* and rocket ammo before the frame (before).
UpdateAndPrune(gap, deltaMs) ==
    /\ ~crashed
    /\ player.active
    /\ \E rolls \in DropRolls :
         \E p0 \in {PlayerUpdate(player, deltaMs)},
            ps \in {UpdateActive(projectiles,
                                 LAMBDA p : IF p.type = "rocket"
                                            THEN RocketFlight(p, enemies, deltaMs)
                                            ELSE ProjectileUpdate(p, deltaMs))},
            e \in {IF fx.present /\ fx.active THEN EffectUpdate(fx, deltaMs) ELSE fx},
            us \in {UpdateActive(powerups, LAMBDA p : PowerUpUpdate(p, deltaMs))} :
           \E es \in {FlightUpdate(enemies, p0, deltaMs)},
              qs \in {UpdateActive(e.particles, LAMBDA p : ParticleUpdate(p, deltaMs))} :
             \E g \in {HandleCollisions([Game EXCEPT !.player = p0,
                                                     !.projectiles = ps,
                                                     !.enemies = es,
                                                     !.powerups = us], rolls)} :
                /\ now' = now + gap
                /\ player' = g.player
                /\ projectiles' = IF g.crashed THEN g.projectiles
                                               ELSE Pruned(g.projectiles)
                /\ enemies' = IF g.crashed THEN g.enemies ELSE Pruned(g.enemies)
                /\ powerups' = IF g.crashed THEN g.powerups ELSE Pruned(g.powerups)
                /\ fx' = IF g.crashed THEN [e EXCEPT !.particles = qs]
                         ELSE [e EXCEPT !.present = Len(Pruned(<<e>>)) > 0 /\ e.present,
                                        !.particles = Pruned(qs)]
                /\ score' = g.score
                /\ gameOver' = g.gameOver
                /\ respawnTimers' = g.timers
                /\ ammo' = g.ammo
                /\ crashed' = g.crashed
                /\ tally' = g.tally
                /\ event' = [kind |-> "frame",
                             events |-> event.events + 1,
                             before |-> [health |-> player.health, ammo |-> ammo],
                             old |-> Sizes(projectiles, enemies, fx, powerups),
                             updated |-> Sizes(ps, es, [e EXCEPT !.particles = qs], us),
                             found |-> [projectiles |-> g.projectiles,
                                        enemies |-> g.enemies,
                                        effects |-> IF e.present THEN <<e>> ELSE <<>>,
                                        particles |-> qs,
                                        powerups |-> g.powerups]]
    /\ UNCHANGED <<fireVars, spawned, sinceRespawn, pre, scenarioVars, input, config,
                   loop, rocket, order>>

\* A frame of the pruning specification
PruneFrame ==
    /\ event.events < MaxPruneEvents
    /\ \E deltaMs \in PruneDeltas : UpdateAndPrune(deltaMs, deltaMs)

\* Milliseconds between two frames of the ammo specification: the cap and
\* the launcher's fire interval
AmmoGaps == {MaxDeltaMs, RocketFireRate}

\* A frame of the ammo specification
AmmoFrame ==
    \E gap \in AmmoGaps :
       /\ now + gap <= MaxAmmoNow
       /\ UpdateAndPrune(gap, CappedDelta(gap))

(***************************************************************************)
(* Pickups.  Power-ups fall towards a ship that has been hit and has fired *)
(* rockets; no enemy and no projectile is on the playfield.                *)
(***************************************************************************)
\* The ship's health and rocket ammo when the power-ups appear: untouched,
\* within one pickup of the cap, and far below it
PickupShips ==
    {[health |-> PlayerMaxHealth, ammo |-> RocketMaxAmmo],
     [health |-> PlayerMaxHealth - 10, ammo |-> RocketMaxAmmo - 2],
     [health |-> 30, ammo |-> 0]}

\* Where the power-ups are, the ship being at (400, 500): on the ship, above
\* it and two frames from touching it, and in a far column about to leave
PickupSpots == {OnPlayer, Spot(OnPlayer.x, OnPlayer.y - 38), Spot(700, 645)}

PickupTypes == {"health", "health_large", "rocket_ammo"}

PickupsFallen == {PowerUp(s.x, s.y, t) : s \in PickupSpots, t \in PickupTypes}

\* Enemy.onDeath pushed one or two power-ups, which fell to these spots,
\* while the ship took damage and fired rockets
PickupScene ==
    /\ ~crashed
    /\ player.active
    /\ event.events < MaxPruneEvents
    /\ Len(powerups) = 0
    /\ \E ship \in PickupShips :
         /\ player' = [player EXCEPT !.health = ship.health]
         /\ ammo' = ship.ammo
    /\ \E p1 \in PickupsFallen :
         \E ps \in {<<p1>>} \cup {<<p1, p2>> : p2 \in PickupsFallen} :
            powerups' = ps
    /\ event' = [kind |-> "scene", events |-> event.events + 1]
    /\ UNCHANGED <<now, fireVars, projectiles, enemies, score, gameOver, respawnTimers,
                   crashed, spawned, sinceRespawn, pre, tally, scenarioVars, input,
                   config, frameVars>>

\* Enemy.onDeath pushed a power-up, which fell onto the ship
PowerUpFalls ==
    /\ ~crashed
    /\ player.active
    /\ Len(powerups) = 0
    /\ \E type \in PickupTypes : powerups' = <<PowerUp(OnPlayer.x, OnPlayer.y, type)>>
    /\ UNCHANGED <<now, fireVars, ammo, projectiles, player, enemies, score, gameOver,
                   respawnTimers, crashed, spawned, sinceRespawn, pre, tally,
                   scenarioVars, input, config, frameVars, lateVars>>

(***************************************************************************)
(* Death and respawn on the clock.  event.timers is the queue of the       *)
(* pending setTimeout callbacks of Player.die, each with the instant of    *)
(* the death (history) and the instant it is due; event.fired is the one   *)
(* the latest step ran.  The ship's velocity is no state of the model:     *)
(* update() overwrites it from the keys before every use.                  *)
(***************************************************************************)
RespawnDueAtOnce(t) == t

\* Player.die: setTimeout(() => { this.respawn(); }, 1000) at time t
RespawnDue(t) == t + RespawnDelayMs

NoTimer == [died |-> -1, due |-> -1]

\* The pending timers, oldest first
Timers == IF event.kind \in {"tick", "respawn"} THEN event.timers ELSE <<>>

\* Milliseconds between two frames: the cap and a stall
RespawnGaps == {MaxDeltaMs, 500}

\* gameLoop -> update(deltaTime) at performance.now() = now + gap, no later
\* than the next timer is due; update returns at once while the player is
\* inactive
RespawnTick ==
    /\ ~crashed
    /\ \E gap \in RespawnGaps :
         /\ now + gap <= MaxRespawnNow
         /\ \A i \in 1..Len(Timers) : now + gap <= Timers[i].due
         /\ now' = now + gap
         /\ \E rolls \in DropRolls :
              \E g \in {IF player.active
                        THEN HandleCollisions(
                                 [Game EXCEPT !.player =
                                     PlayerUpdate(player, CappedDelta(gap))], rolls)
                        ELSE Game} :
                 /\ player' = g.player
                 /\ projectiles' = Pruned(g.projectiles)
                 /\ enemies' = Pruned(g.enemies)
                 /\ powerups' = Pruned(g.powerups)
                 /\ score' = g.score
                 /\ gameOver' = g.gameOver
                 /\ respawnTimers' = g.timers
                 /\ ammo' = g.ammo
                 /\ crashed' = g.crashed
                 /\ tally' = g.tally
                 /\ event' = [kind |-> "tick",
                              events |-> event.events + 1,
                              timers |-> Timers
                                  \o [i \in 1..(g.timers - respawnTimers) |->
                                         [died |-> now + gap,
                                          due |-> RespawnDue(now + gap)]],
                              fired |-> NoTimer]
    /\ UNCHANGED <<fireVars, spawned, sinceRespawn, pre, scenarioVars, input, config,
                   frameVars>>

\* The callback of the oldest timer, at or after the instant it is due
TimerFires ==
    /\ Len(Timers) > 0
    /\ now >= Timers[1].due
    /\ player' = Respawned(player)
    /\ respawnTimers' = respawnTimers - 1
    /\ event' = [kind |-> "respawn",
                 events |-> event.events + 1,
                 timers |-> Tail(Timers),
                 fired |-> Timers[1]]
    /\ UNCHANGED <<now, fireVars, ammo, projectiles, enemies, powerups, score, gameOver,
                   crashed, spawned, sinceRespawn, pre, tally, scenarioVars, input,
                   config, frameVars>>

\* init(): new WaveManager() and waveManager.start(), at performance.now() = 0
InitDirectorVars ==
    /\ wm = StartWave([wm |-> NewWaveManager, bossTriggered |-> FALSE], 0).wm
    /\ bossTriggered = FALSE

InitCombatVars ==
    /\ InitDirectorVars
    /\ input = NewInput
    /\ config = NewConfig
    /\ loop = NewLoop
    /\ fx = NoEffect
    /\ rocket = NoRocket
    /\ order = NewOrder
    /\ event = NoEvent
    /\ gunship = NewGunship
    /\ lastRoll = NoRoll
    /\ player = NewPlayer
    /\ enemies = <<>>
    /\ powerups = <<>>
    /\ score = 0
    /\ gameOver = FALSE
    /\ respawnTimers = 0
    /\ crashed = FALSE
    /\ spawned = 0
    /\ sinceRespawn = -1
    /\ pre = NoPre
    /\ tally = ZeroTally

InitWeapons ==
    /\ now = 0
    /\ lastFireTime = [w \in WeaponIds |-> 0]
    /\ ammo \in StartAmmo
    /\ currentWeaponIndex = 0
    /\ fireLog = NoFire
    /\ lastShot = [w \in WeaponIds |-> -1]

InitWeapon ==
    /\ InitWeapons
    /\ probe = NoProbe
    /\ projectiles = <<>>
    /\ effects = <<>>
    /\ InitCombatVars

NextWeapon == PlayerFire \/ PlayerFireRocket \/ SwitchWeapon \/ AdvanceClock

SpecWeapon == InitWeapon /\ [][NextWeapon]_vars

(***************************************************************************)
(* The collision test as a function of two entities                        *)
(***************************************************************************)
\* Centre coordinates and radii the test is applied to: pairs at, just inside
\* and just outside the sum of the radii, on an axis and off it (12, 9 and
\* 9, 12 are at distance 15; 16, 0 and 0, 16 at 16; 15, 5 at 15.8; 16, 1 at 16.03).
ProbeXs == {0, 9, 12, 15, 16}
ProbeYs == {0, 1, 5, 9, 12, 16}
ProbeRadii == {0, 7, 8}

ProbeEntities ==
    {[x |-> x, y |-> y, hitboxRadius |-> r] : x \in ProbeXs, y \in ProbeYs, r \in ProbeRadii}

\* a.collidesWith(b) and b.collidesWith(a) for the two entities of the probe
Collide ==
    /\ ~probe.done
    /\ probe' = [probe EXCEPT !.ab = collidesWith(probe.a, probe.b),
                              !.ba = collidesWith(probe.b, probe.a),
                              !.done = TRUE]
    /\ UNCHANGED <<now, lastFireTime, ammo, currentWeaponIndex, fireLog, lastShot,
                   projectiles, effects>>
    /\ UNCHANGED combatVars
    /\ UNCHANGED scenarioVars
    /\ UNCHANGED extraVars

InitCollide ==
    /\ InitWeapons
    /\ ammo = RocketMaxAmmo
    /\ \E a \in ProbeEntities, b \in ProbeEntities :
         probe = [NoProbe EXCEPT !.a = a, !.b = b]
    /\ projectiles = <<>>
    /\ effects = <<>>
    /\ InitCombatVars

NextCollide == Collide

SpecCollide == InitCollide /\ [][NextCollide]_vars

(***************************************************************************)
(* The player under enemy fire                                             *)
(***************************************************************************)
InitPlayer ==
    /\ InitWeapons
    /\ ammo = RocketMaxAmmo
    /\ probe = NoProbe
    /\ projectiles = <<>>
    /\ effects = <<>>
    /\ InitCombatVars

NextPlayer == EnemyShotArrives \/ Frame \/ ShortFrame \/ PlayerRespawn

SpecPlayer == InitPlayer /\ [][NextPlayer]_vars

(***************************************************************************)
(* Enemies around the player                                               *)
(***************************************************************************)
\* Where the model lets each class arrive: Kamikazes, which chase the player,
\* beside the player and in the cluster; a Scout beside the player or in the
\* cluster; a Gunship in the cluster or far from everything.
Arrivals ==
    ({"Kamikaze"} \X {LeftOfPlayer, RightOfPlayer, ClusterA, ClusterB, ClusterC})
    \cup ({"Scout"} \X {LeftOfPlayer, ClusterA})
    \cup ({"Gunship"} \X {ClusterA, FarAway})

\* WaveManager.spawnEnemyAt(type, x, y) and the enemy's flight to a free spot
EnemyArrives ==
    /\ ~crashed
    /\ player.active
    /\ spawned < MaxEnemies
    /\ spawned' = spawned + 1
    /\ \E arrival \in Arrivals :
         /\ \A i \in 1..Len(enemies) : Spot(enemies[i].x, enemies[i].y) # arrival[2]
         /\ enemies' = Append(enemies, Enemy(arrival[1], arrival[2]))
    /\ tally' = ZeroTally
    /\ pre' = NoPre
    /\ UNCHANGED <<player, projectiles, powerups, score, gameOver, respawnTimers,
                   crashed, ammo, sinceRespawn>>
    /\ UNCHANGED weaponVars
    /\ UNCHANGED scenarioVars
    /\ UNCHANGED extraVars

\* A projectile the player fired (sniper round or rocket) reaches the enemy
\* at ClusterA, one between two frames
PlayerShotArrives ==
    /\ ~crashed
    /\ player.active
    /\ \E i \in 1..Len(enemies) : Spot(enemies[i].x, enemies[i].y) = ClusterA
    /\ projectiles = <<>>
    /\ \E w \in {"sniper", "rocket"} :
         projectiles' = projectiles \o CreateProjectiles(w, ClusterA.x, ClusterA.y + 10, 0)
    /\ tally' = ZeroTally
    /\ pre' = NoPre
    /\ UNCHANGED <<player, enemies, powerups, score, gameOver, respawnTimers,
                   crashed, ammo, spawned, sinceRespawn>>
    /\ UNCHANGED weaponVars
    /\ UNCHANGED scenarioVars
    /\ UNCHANGED extraVars

InitEnemies == InitPlayer

NextEnemies == EnemyArrives \/ PlayerShotArrives \/ Frame \/ PlayerRespawn

SpecEnemies == InitEnemies /\ [][NextEnemies]_vars

(***************************************************************************)
(* The wave director from the first wave to the boss                       *)
(***************************************************************************)
InitDirector == InitPlayer

NextDirector == DirectorFrame \/ AfterBossFrame

SpecDirector == InitDirector /\ [][NextDirector]_vars

\* The director with frames that keep coming: requestAnimationFrame calls
\* gameLoop again after every frame, so a frame that can happen does happen.
\* The clock stops at MaxLiveNow, which no run reaches before the boss is
\* triggered.
NextDirectorLive == LiveDirectorFrame \/ LiveAfterBossFrame

SpecDirectorLive ==
    InitDirector /\ [][NextDirectorLive]_vars /\ WF_vars(LiveDirectorFrame)

(***************************************************************************)
(* The input specification: key events in any interleaving with the ticks  *)
(* and with the advance of the clock.                                      *)
(***************************************************************************)
InitInput == InitPlayer

(***************************************************************************)
(* The bounds specification: frames with the movement keys, resizes of the *)
(* window, deaths and respawns.                                            *)
(***************************************************************************)
InitBounds == InitPlayer

NextBounds == MoveFrame \/ Resize \/ PlayerKilled \/ PlayerRespawn

SpecBounds == InitBounds /\ [][NextBounds]_vars


NextInput == KeyDown \/ KeyUp \/ InputTick \/ AdvanceClock

SpecInput == InitInput /\ [][NextInput]_vars

(***************************************************************************)
(* The game loop specification: animation-frame callbacks at gaps from a   *)
(* 60 Hz frame to a stall of a second, the ship moved by the keyboard      *)
(***************************************************************************)
InitLoop == InitPlayer

NextLoop == GameLoop

SpecLoop == InitLoop /\ [][NextLoop]_vars

(***************************************************************************)
(* The effect specification: effects of the four factories, one after the  *)
(* other, updated by frames of several lengths                             *)
(***************************************************************************)
InitEffects == InitPlayer

NextEffects == CreateEffect \/ EffectsFrame

SpecEffects == InitEffects /\ [][NextEffects]_vars

(***************************************************************************)
(* The rocket specification: one rocket fired at an enemy that stands      *)
(* still straight ahead of the ship, followed until it hits, leaves the    *)
(* canvas or has flown MaxRocketFrames frames                              *)
(***************************************************************************)
InitRocket == InitPlayer

NextRocket == RocketLaunch \/ RocketFrame

SpecRocket == InitRocket /\ [][NextRocket]_vars

(***************************************************************************)
(* The frame order specification: the first wave's Scouts, spawned by the  *)
(* director and updated, collision-checked and removed by the frames       *)
(***************************************************************************)
InitOrder == InitPlayer

NextOrder == OrderFrame

SpecOrder == InitOrder /\ [][NextOrder]_vars

(***************************************************************************)
(* The formation specification: spawn events of groups of every class and  *)
(* formation                                                               *)
(***************************************************************************)
InitFormation == InitPlayer

NextFormation == SpawnEvent

SpecFormation == InitFormation /\ [][NextFormation]_vars

(***************************************************************************)
(* The specification of leaving enemies: Scouts and Kamikazes come down    *)
(* the playfield past the ship or onto it, and frames update them, run the *)
(* collision pass and remove the inactive ones.                            *)
(***************************************************************************)
InitLeave == InitPlayer

NextLeave == Descend \/ LeaveFrame

SpecLeave == InitLeave /\ [][NextLeave]_vars

(***************************************************************************)
(* The pruning specification: scenes of enemies, projectiles, power-ups    *)
(* and an effect, and the frames that update them, resolve the collisions  *)
(* and filter the five collections                                         *)
(***************************************************************************)
InitPrune == InitPlayer

NextPrune == Populate \/ PruneFrame

SpecPrune == InitPrune /\ [][NextPrune]_vars

(***************************************************************************)
(* The pickup specification: power-ups on the ship, falling onto it and    *)
(* falling past it, and the frames that update, collect and filter them    *)
(***************************************************************************)
InitPickup == InitPlayer

NextPickup == PickupScene \/ PruneFrame

SpecPickup == InitPickup /\ [][NextPickup]_vars

(***************************************************************************)
(* The ammo specification: the rocket launcher as constructed or nine      *)
(* rockets later, calls of fireRocket, power-ups that fall onto the ship,   *)
(* and the frames that move the rockets and collect the power-ups          *)
(***************************************************************************)
InitAmmo == InitWeapon

NextAmmo == PlayerFireRocket \/ PowerUpFalls \/ AmmoFrame

SpecAmmo == InitAmmo /\ [][NextAmmo]_vars

(***************************************************************************)
(* The respawn specification: enemy shots reach the ship, frames come at   *)
(* the cap or after a stall, the window is resized, and the timers of      *)
(* Player.die fire when they are due.  requestAnimationFrame calls         *)
(* gameLoop again after every frame and the browser runs every timer       *)
(* callback, so a frame or a callback that can happen does happen.         *)
(***************************************************************************)
InitRespawn == InitPlayer

NextRespawn == EnemyShotArrives \/ RespawnTick \/ TimerFires \/ Resize

SpecRespawn ==
    /\ InitRespawn
    /\ [][NextRespawn]_vars
    /\ WF_vars(RespawnTick)
    /\ WF_vars(TimerFires)

(***************************************************************************)
(* The specification of the cosmetic entities: effects pushed one after    *)
(* the other, the player losing lives and respawning, and the frames of    *)
(* the game loop, which requestAnimationFrame keeps coming                 *)
(***************************************************************************)
NextCosmetic == EffectPushed \/ PlayerDiesInExplosion \/ PlayerRespawn \/ CosmeticTick

SpecCosmetic == InitEffects /\ [][NextCosmetic]_vars /\ WF_vars(CosmeticTick)

(***************************************************************************)
(* The Gunship specification: one Gunship, from its spawn on, updated      *)
(* frame after frame.                                                      *)
(***************************************************************************)
InitGunship == InitPlayer

NextGunship == GunshipFrame

SpecGunship == InitGunship /\ [][NextGunship]_vars

(***************************************************************************)
(* The drop specification: one Scout or Gunship, killed by one call of     *)
(* takeDamage, with every value of the roll.                               *)
(***************************************************************************)
\* Math.random() in percent: 0 <= roll < 1
AllRolls == 0..99

InitDrop ==
    /\ InitWeapons
    /\ ammo = RocketMaxAmmo
    /\ probe = NoProbe
    /\ projectiles = <<>>
    /\ effects = <<>>
    /\ InitDirectorVars
    /\ input = NewInput
    /\ config = NewConfig
    /\ loop = NewLoop
    /\ fx = NoEffect
    /\ rocket = NoRocket
    /\ order = NewOrder
    /\ event = NoEvent
    /\ gunship = NewGunship
    /\ lastRoll = NoRoll
    /\ player = NewPlayer
    /\ \E type \in {"Scout", "Gunship"} : enemies = <<Enemy(type, ClusterA)>>
    /\ powerups = <<>>
    /\ score = 0
    /\ gameOver = FALSE
    /\ respawnTimers = 0
    /\ crashed = FALSE
    /\ spawned = 1
    /\ sinceRespawn = -1
    /\ pre = NoPre
    /\ tally = ZeroTally

\* enemy.takeDamage(amount) with a lethal amount; lastRoll records the class
\* of the enemy and the value Math.random() returned in its onDeath
EnemyDies ==
    /\ ~crashed
    /\ Len(enemies) = 1
    /\ enemies[1].active
    /\ \E roll \in AllRolls, amount \in {enemies[1].health, RocketDamage} :
         \E g \in {EnemyTakeDamage(Game, 1, amount, <<roll>>, 0)} :
            /\ enemies' = g.enemies
            /\ powerups' = g.powerups
            /\ score' = g.score
            /\ tally' = g.tally
            /\ lastRoll' = [type |-> enemies[1].type, roll |-> roll]
    /\ UNCHANGED <<now, fireVars, ammo, projectiles, player, gameOver, respawnTimers,
                   crashed, spawned, sinceRespawn, pre, wm, bossTriggered, gunship>>
    /\ UNCHANGED extraVars

NextDrop == EnemyDies

SpecDrop == InitDrop /\ [][NextDrop]_vars

(***************************************************************************)
(* Claims                                                                  *)
(***************************************************************************)

\* C1: fire-rate gating.  A fire() call of a weapon with interval T (the
\* rocket launcher while it has ammo) returns exactly one projectile if
\* now - lastFireTime >= T and none otherwise; hence, after a call that
\* returned a projectile at time t, a call at t + D returns one iff D >= T.
C1_FireRateGating ==
    fireLog.weapon # "none" =>
        LET T     == FireRate(fireLog.weapon)
            armed == fireLog.weapon = "rocket" => fireLog.ammoBefore > 0
        IN  /\ fireLog.count \in {0, 1}
            /\ armed => (fireLog.count = 1 <=> fireLog.time - fireLog.lastBefore >= T)
            /\ (armed /\ fireLog.prevShot >= 0) =>
                   (fireLog.count = 1 <=> fireLog.time - fireLog.prevShot >= T)

\* C1 witness: a weapon returns its second projectile exactly T after its first.
C1_Witness ==
    /\ fireLog.weapon # "none"
    /\ fireLog.count = 1
    /\ fireLog.prevShot >= 0
    /\ fireLog.time - fireLog.prevShot = FireRate(fireLog.weapon)

\* A step that is a fire() call of weapon w at the current instant
FireCallOf(w) ==
    /\ fireLog'.weapon = w
    /\ fireLog'.time = now
    /\ now' = now
    /\ currentWeaponIndex' = currentWeaponIndex

\* C2: a fire() call made while canFire(now) is false (interval not elapsed,
\* or the rocket launcher out of ammo) returns nothing and leaves
\* lastFireTime, ammo, game.effects and game.projectiles as they were.
C2_RefusedFireIsNoOp ==
    [][\A w \in WeaponIds :
          (FireCallOf(w) /\ ~CanFire(w, now)) =>
              /\ fireLog'.count = 0
              /\ UNCHANGED <<lastFireTime, ammo, effects, projectiles>>]_vars

\* C2 witness: the rocket launcher is fired with the interval elapsed and no
\* ammo left, and returns nothing.
C2_Witness ==
    /\ fireLog.weapon = "rocket"
    /\ fireLog.ammoBefore = 0
    /\ fireLog.time - fireLog.lastBefore >= RocketFireRate
    /\ fireLog.count = 0
    /\ ammo = 0

\* C3: a.collidesWith(b) is true iff the centres are strictly closer than
\* the sum of the two radii (a distance equal to the sum is no collision),
\* and a.collidesWith(b) = b.collidesWith(a).
C3_CollisionThreshold ==
    probe.done =>
        LET dx == probe.a.x - probe.b.x
            dy == probe.a.y - probe.b.y
            R  == probe.a.hitboxRadius + probe.b.hitboxRadius
        IN  /\ probe.ab <=> (dx * dx + dy * dy < R * R)
            /\ probe.ab = probe.ba

\* C3 witness: two entities whose centres are exactly the sum of the radii
\* apart, off the axes, are reported as not colliding.
C3_Witness ==
    /\ probe.done
    /\ probe.a.x # probe.b.x
    /\ probe.a.y # probe.b.y
    /\ probe.a.hitboxRadius + probe.b.hitboxRadius = 15
    /\ (probe.a.x - probe.b.x) * (probe.a.x - probe.b.x)
         + (probe.a.y - probe.b.y) * (probe.a.y - probe.b.y) = 15 * 15
    /\ ~probe.ab


\* C4: Enemy.takeDamage with an amount >= the health sets the health to
\* exactly 0, never below, and runs the death handling (score, explosion, drop
\* roll) once; another takeDamage on the dead enemy has no effect.  Hence no
\* enemy has a negative health or more than one run of its onDeath.
C4_DeathHandledOnce ==
    \A i \in 1..Len(enemies) :
        /\ enemies[i].health >= 0
        /\ enemies[i].deaths <= 1

\* C5: a player whose health has reached 0 cannot be damaged again before the
\* respawn: no pass runs Player.die twice, and a pass that began with the
\* health at 0 leaves health and lives alone and schedules no respawn.
C5_DeadPlayerTakesNoDamage ==
    pre.pass =>
        /\ tally.dies <= 1
        /\ pre.player.health = 0 =>
               /\ tally.dies = 0
               /\ player.health = 0
               /\ player.lives = pre.player.lives
               /\ respawnTimers = pre.timers

\* C6: once the game is over (lives exhausted, game.gameOver set, player
\* inactive) a respawn callback scheduled earlier does not respawn the
\* player: the player stays inactive and its health stays 0.
C6_NoRespawnAfterGameOver ==
    gameOver => (~player.active /\ player.health = 0)

\* C7: in every reachable state the player's lives counter is >= 0.
C7_LivesNeverNegative == player.lives >= 0

\* Three Kamikazes, each within the explosion radius of the other two
KamikazeCluster(es) ==
    /\ Len(es) = 3
    /\ \A i \in 1..3 : es[i].type = "Kamikaze" /\ es[i].active
    /\ \A i, j \in 1..3 : Distance(es[i], es[j]) < ExplosionRadius

\* C8: with three Kamikazes within each other's explosion radius, a pass that
\* destroys one deactivates all three (none is left in game.enemies), runs the
\* death handling of each exactly once and raises the score by exactly three
\* score values.
C8_ChainReaction ==
    (pre.pass /\ KamikazeCluster(pre.enemies) /\ tally.small > 0) =>
        /\ ~crashed
        /\ enemies = <<>>
        /\ tally.small = 3
        /\ score = pre.score + 3 * KamikazeScore

\* C9: while the player is invulnerable, the takeDamage calls of a pass (body
\* contact, Kamikaze explosion) take no health and no life and run no
\* Player.die: health and lives are what they were when the pass began.
C9_InvulnerableIgnoresDamage ==
    (pre.pass /\ tally.shielded /\ tally.hits > 0) =>
        /\ tally.lost = 0
        /\ tally.dies = 0
        /\ player.health = pre.player.health
        /\ player.lives = pre.player.lives
        /\ respawnTimers = pre.timers

\* C9 witness: an invulnerable player touches a Kamikaze, whose contact and
\* explosion both call takeDamage, and keeps full health.
C9_Witness ==
    /\ pre.pass
    /\ tally.shielded
    /\ tally.hits >= 2
    /\ score > pre.score
    /\ player.health = PlayerMaxHealth

\* C10: invulnerability is engaged exactly at respawn and stays on until the
\* first Player.update at which the simulated time added since that respawn
\* reaches invulnerabilityDuration; at that update invulnerable becomes false
\* and the timer is reset to 0, and a takeDamage call of a later pass takes
\* health again (or, with the health already at 0, runs Player.die).
C10_InvulnerabilityWindow ==
    /\ player.invulnerable <=>
           (sinceRespawn >= 0 /\ sinceRespawn < InvulnerabilityDuration)
    /\ player.invulnerable => player.invulnerabilityTimer = sinceRespawn
    /\ ~player.invulnerable => player.invulnerabilityTimer = 0
    /\ (pre.pass /\ tally.hits > 0) =>
           (tally.shielded <=> tally.lost = 0 /\ tally.dies = 0)

\* C10 witness: the window has run out at an update that overshot the
\* duration, and an enemy projectile of the pass took health again.
C10_Witness ==
    /\ sinceRespawn > InvulnerabilityDuration
    /\ ~player.invulnerable
    /\ pre.pass
    /\ tally.hits > 0
    /\ tally.lost > 0


\* C11: in every reachable state the player's health is within 0..maxHealth
\* and every enemy's health within 0..its maximum: no damage, pickup or
\* respawn leaves a negative or above-maximum health.
C11_HealthBounds ==
    /\ player.health \in 0..PlayerMaxHealth
    /\ \A i \in 1..Len(enemies) :
           enemies[i].health \in 0..MaxHealthOf(enemies[i].type)

\* C11 witness: a player at full health collects the health power-up dropped
\* by the Scout it touched, and stays at maxHealth, while a damaged Gunship
\* is left with part of its health.
C11_Witness ==
    /\ pre.pass
    /\ tally.drops > 0
    /\ powerups = <<>>
    /\ pre.player.health = PlayerMaxHealth
    /\ player.health = PlayerMaxHealth
    /\ \E i \in 1..Len(enemies) :
           enemies[i].health > 0 /\ enemies[i].health < MaxHealthOf(enemies[i].type)


\* C16: in one collision pass a player projectile damages at most one enemy:
\* once it has hit it is inactive, and no other enemy it overlaps takes its
\* damage or gets an impact effect.
C16_SingleTarget == tally.pierced = 0

\* C17: once the player has become inactive during a collision pass, no later
\* check of the pass damages the player, changes its lives, kills an enemy by
\* contact or collects a power-up for it.
C17_InactivePlayerShortCircuits ==
    /\ tally.late = 0
    /\ (pre.pass /\ ~player.active) => player.lives = 0


\* The enemies of es that are no longer in game.enemies
Removed(es) ==
    SelectSeq(es, LAMBDA e : \A i \in 1..Len(enemies) :
                                 Spot(enemies[i].x, enemies[i].y) # Spot(e.x, e.y))

RECURSIVE ScoreOf(_)
\* The sum of the score values of the enemies of es
ScoreOf(es) == IF es = <<>> THEN 0 ELSE ScoreValue(Head(es).type) + ScoreOf(Tail(es))

\* C18: in a pass in which an active player touches enemies (and nothing but
\* those contacts damages it), a player that is not invulnerable loses exactly
\* the contact damage of 25 for each, clamped at 0, and an invulnerable one
\* nothing; every enemy touched is destroyed (none is left overlapping the
\* player) and the score of each enemy removed is added once.
C18_ContactMutuallyDestructive ==
    (pre.pass /\ tally.contacts > 0) =>
        /\ tally.lost = IF tally.shielded
                        THEN 0
                        ELSE Min(pre.player.health, tally.contacts * ContactDamage)
        /\ \A i \in 1..Len(enemies) : ~collidesWith(pre.player, enemies[i])
        /\ score = pre.score + ScoreOf(Removed(pre.enemies))


\* C12: a wave goes from Active to Break only when every group has spawned
\* its full count and the wave's elapsed time has reached its duration: in a
\* break, the wave just played has both.
C12_WaveCompletionGating ==
    wm.inBreak =>
        /\ AllSpawned(wm.enemyGroups)
        /\ wm.breakStartTime - wm.waveStartTime >= WaveAt(wm.currentWaveIndex).duration

\* C12 witness: a wave stayed Active past its duration until its last group
\* had spawned, and only then went to Break.
C12_Witness ==
    /\ wm.inBreak
    /\ \E k \in 1..Len(wm.enemyGroups) :
           wm.enemyGroups[k].lastSpawnTime - wm.waveStartTime
               > WaveAt(wm.currentWaveIndex).duration

\* C13: at most one of waveActive and inBreak is true.
C13_ActiveOrBreak == ~(wm.waveActive /\ wm.inBreak)

\* C13 witness: the break after the second wave.
C13_Witness == wm.inBreak /\ ~wm.waveActive /\ wm.currentWaveIndex = 1

\* C14: currentWaveIndex never decreases and grows by exactly one, and only
\* when a break ends; the wave being played is the one the list has at the
\* index; bossTriggered is true exactly when the index has reached the number
\* of wave definitions, and from then on nothing changes: no wave is active,
\* no break runs and no enemy is spawned.
C14_WaveIndexMonotonic ==
    [][/\ wm'.currentWaveIndex \in {wm.currentWaveIndex, wm.currentWaveIndex + 1}
       /\ wm'.currentWaveIndex = wm.currentWaveIndex + 1 <=> (wm.inBreak /\ ~wm'.inBreak)
       /\ wm'.currentWaveIndex = wm.currentWaveIndex + 1 =>
              now' - wm.breakStartTime >= BreakDuration
       /\ wm'.waveActive =>
              /\ wm'.currentWaveIndex < Len(WaveDefinitions)
              /\ \A k \in 1..Len(wm'.enemyGroups) :
                     /\ wm'.enemyGroups[k].type
                            = WaveAt(wm'.currentWaveIndex).enemies[k].type
                     /\ wm'.enemyGroups[k].count
                            = WaveAt(wm'.currentWaveIndex).enemies[k].count
       /\ bossTriggered' <=> wm'.currentWaveIndex = Len(WaveDefinitions)
       /\ bossTriggered =>
              (~wm.waveActive /\ ~wm.inBreak /\ UNCHANGED <<wm, bossTriggered>>)]_vars

\* C14 witness: the boss is triggered after the fifth wave and frames go on.
C14_Witness ==
    /\ bossTriggered
    /\ wm.currentWaveIndex = Len(WaveDefinitions)
    /\ now - wm.breakStartTime > BreakDuration

\* C15 as claimed: the enemies a group adds to game.enemies never exceed its
\* declared count, and equal it when the wave completes, for every formation.
C15_EnemiesWithinCount ==
    \A k \in 1..Len(wm.enemyGroups) :
        /\ wm.enemyGroups[k].added <= wm.enemyGroups[k].count
        /\ wm.inBreak => wm.enemyGroups[k].added = wm.enemyGroups[k].count

\* C15 amended: the spawnEnemyGroup calls of a group never exceed its declared
\* count and equal it when the wave completes; each call adds the enemies of
\* its formation (1 single, 3 line, 5 V), so the group has added its number
\* of calls times the size of its formation.
C15_SpawnCallsWithinCount ==
    \A k \in 1..Len(wm.enemyGroups) :
        /\ wm.enemyGroups[k].spawned <= wm.enemyGroups[k].count
        /\ wm.enemyGroups[k].added
               = wm.enemyGroups[k].spawned * FormationSize(wm.enemyGroups[k].formation)
        /\ wm.inBreak => wm.enemyGroups[k].spawned = wm.enemyGroups[k].count

\* C15 witness: in the fourth wave the line group has made its 6 calls, which
\* added 18 Scouts, while wave time remains and the wave is still active.
C15_Witness ==
    /\ wm.waveActive
    /\ now - wm.waveStartTime < WaveAt(wm.currentWaveIndex).duration
    /\ \E k \in 1..Len(wm.enemyGroups) :
           /\ wm.enemyGroups[k].formation = "line"
           /\ wm.enemyGroups[k].spawned = wm.enemyGroups[k].count
           /\ wm.enemyGroups[k].added = 3 * wm.enemyGroups[k].count

\* C19: a burst of a hovering Gunship adds exactly 3 projectiles to
\* game.projectiles, its shots at least 150 ms apart, and a burst begins no
\* sooner than 1200 ms after the previous burst began.
C19_BurstOfThree ==
    /\ gunship.burstShotsFired = BurstCount => gunship.pushed = BurstCount
    /\ gunship.burstShotsFired > 1 => gunship.lastGap >= BurstDelay
    /\ gunship.prevBurstStart >= 0 =>
           gunship.burstStart - gunship.prevBurstStart >= GunshipFireRate

\* C20: for a drop table {A: pA, B: pB, nothing: pN} and a roll r, the dying
\* enemy drops A exactly when r <= pA, B exactly when pA < r <= pA + pB, and
\* nothing otherwise; it never drops more than one power-up.
C20_DropRollThresholds ==
    lastRoll.type # "none" =>
        \E A \in {DropTable(lastRoll.type)[1]}, B \in {DropTable(lastRoll.type)[2]} :
            /\ Len(powerups) <= 1
            /\ lastRoll.roll <= A[2] <=>
                   powerups = <<PowerUp(ClusterA.x, ClusterA.y, A[1])>>
            /\ (A[2] < lastRoll.roll /\ lastRoll.roll <= A[2] + B[2]) <=>
                   powerups = <<PowerUp(ClusterA.x, ClusterA.y, B[1])>>
            /\ lastRoll.roll > A[2] + B[2] <=> powerups = <<>>

\* C20 witness: a Scout dies with a roll of exactly 0.3 and drops a health
\* power-up.
C20_Witness ==
    /\ lastRoll = [type |-> "Scout", roll |-> 30]
    /\ ~enemies[1].active
    /\ Len(powerups) = 1
    /\ powerups[1].type = "health"

\* C29: in one update a group makes at most one spawn call, whatever the time
\* since the previous frame; two consecutive spawn calls of a group are at
\* least the group's interval apart; and a group spawns exactly when its own
\* count is not exhausted and its own interval has passed, whatever the
\* other groups of the wave do.
C29_SpawnPacing ==
    [][(wm.waveActive /\ ~bossTriggered) =>
          \A k \in 1..Len(wm.enemyGroups) :
             \E before \in {wm.enemyGroups[k]},
                after \in {IF wm'.currentWaveIndex = wm.currentWaveIndex
                           THEN wm'.enemyGroups[k] ELSE wm.enemyGroups[k]} :
                /\ after.spawned \in {before.spawned, before.spawned + 1}
                /\ after.spawned = before.spawned + 1 <=>
                       /\ before.spawned < before.count
                       /\ now' - before.lastSpawnTime >= before.interval
                /\ after.spawned = before.spawned + 1 =>
                       /\ after.lastSpawnTime = now'
                       /\ after.added = before.added + FormationSize(before.formation)
                /\ after.spawned = before.spawned =>
                       /\ after.lastSpawnTime = before.lastSpawnTime
                       /\ after.added = before.added]_vars

\* C29 witness: the first frame of a wave comes ten intervals of a group after
\* the wave started, and the group has made one spawn call.
C29_Witness ==
    /\ wm.waveActive
    /\ \E k \in 1..Len(wm.enemyGroups) :
           /\ wm.enemyGroups[k].spawned = 1
           /\ wm.enemyGroups[k].lastSpawnTime = now
           /\ now - wm.waveStartTime >= 10 * wm.enemyGroups[k].interval

\* C30: during a break no enemy is spawned; the break ends, and the next wave
\* starts or the boss is triggered, at the first update that is at least
\* breakDuration after the wave ended, and in no earlier update.
C30_FixedLengthBreak ==
    [][(wm.inBreak /\ ~bossTriggered) =>
          /\ wm'.inBreak <=> now' - wm.breakStartTime < BreakDuration
          /\ wm'.inBreak => wm' = wm
          /\ ~wm'.inBreak =>
                 /\ wm'.waveActive \/ bossTriggered'
                 /\ wm'.waveActive =>
                        /\ wm'.waveStartTime = now'
                        /\ \A k \in 1..Len(wm'.enemyGroups) :
                               wm'.enemyGroups[k].added = 0]_vars

\* C30 witness: a wave that started exactly breakDuration after the previous
\* wave ended.
C30_Witness ==
    /\ wm.waveActive
    /\ wm.currentWaveIndex > 0
    /\ wm.waveStartTime = now
    /\ wm.waveStartTime - wm.breakStartTime = BreakDuration

\* C28: with frames that keep coming, the player active and the clock
\* advancing, every wave is followed by its break, every break ends, and
\* bossTriggered becomes true, after the last wave, and stays true.
C28_DirectorLiveness ==
    /\ \A i \in 0..(Len(WaveDefinitions) - 1) :
           (wm.waveActive /\ wm.currentWaveIndex = i)
               ~> (wm.inBreak /\ wm.currentWaveIndex = i)
    /\ wm.inBreak ~> ~wm.inBreak
    /\ <>[](bossTriggered /\ wm.currentWaveIndex = Len(WaveDefinitions))

\* C28 witness: the boss is triggered at the end of the break after the last
\* wave.
C28_Witness ==
    /\ bossTriggered
    /\ ~wm.inBreak
    /\ ~wm.waveActive
    /\ now - wm.breakStartTime \in BreakDuration..(BreakDuration + 3000)
    /\ wm.breakStartTime - wm.waveStartTime
           >= WaveAt(Len(WaveDefinitions) - 1).duration

\* C27: a takeDamage call that kills a Kamikaze returns after finitely many
\* nested takeDamage and onDeath calls, whatever the arrangement of the
\* enemies: the nesting never exhausts the call stack.
C27_KamikazeDeathTerminates == ~crashed

\* C23: in every tick the weapon-switch signal, and the special-fire signal,
\* is true iff its key is down at the tick and was not down at the previous
\* processed tick; the weapon is switched, and a rocket fire attempted, in
\* exactly the ticks whose signal is true; so over consecutive ticks that
\* find a key down its action runs exactly once.
C23_EdgeTriggeredInput ==
    [][InputTick =>
          /\ \A k \in EdgeKeys :
                 /\ input'.signal[k] <=> (input.keys[k] /\ ~input.seen[k])
                 /\ input'.held[k] >= 1 => input'.fired[k] = 1
                 /\ input'.held[k] = 0 => input'.fired[k] = 0
          /\ currentWeaponIndex' # currentWeaponIndex <=> input'.signal["KeyE"]
          /\ (fireLog' = [weapon |-> "rocket", time |-> now,
                          lastBefore |-> lastFireTime["rocket"],
                          ammoBefore |-> ammo,
                          count |-> Len(projectiles') - Len(projectiles),
                          prevShot |-> lastShot["rocket"]])
                 \/ (~input'.signal["KeyR"] /\ fireLog' = fireLog
                                             /\ projectiles' = projectiles)]_vars

\* C23 witness: KeyE has been down for three ticks and more, with one weapon
\* switch, and the rocket key's first tick has fired a rocket.
C23_Witness ==
    /\ input.held["KeyE"] = MaxHeldTicks
    /\ input.fired["KeyE"] = 1
    /\ currentWeaponIndex = 1
    /\ input.signal["KeyR"]
    /\ fireLog.weapon = "rocket"
    /\ fireLog.count = 1

\* C22: after every player update, every respawn and every canvas resize the
\* player's position lies inside the bounds rectangle: left <= x <= right and
\* top <= y <= bottom.
C22_PlayerInsideBounds ==
    /\ config.left <= player.x
    /\ player.x <= config.right
    /\ config.top <= player.y
    /\ player.y <= config.bottom

\* C22 witness: a respawned player has moved beyond the old bounds on a wide
\* canvas, and a resize to the small canvas has brought it back to the right
\* and bottom bounds.
C22_Witness ==
    /\ player.lives < PlayerStartLives
    /\ player.health = PlayerMaxHealth
    /\ config.width = MinWidth
    /\ config.height = MinHeight
    /\ player.x = MinWidth - 20
    /\ player.y = MinHeight - 50

C25_ParticleBurstOnce ==
    fx.kind # "none" =>
        /\ fx.bursts <= 1
        /\ fx.bursts = 1 => fx.burstFrom = 0
        /\ fx.hasConfig =>
               fx.added = (IF fx.currentFrame >= 1 THEN EffectConfig(fx.kind).count ELSE 0)
        /\ ~fx.hasConfig => fx.added = 0

\* C25 witness: a large explosion has played its six frames and has been
\* removed, having pushed its 20 particles.
C25_Witness ==
    /\ fx.kind = "large"
    /\ ~fx.present
    /\ fx.currentFrame = 6
    /\ fx.added = 20

\* C24: an enemy spawned in a tick is updated and collision-checked in that
\* same tick (the director spawns first), so every enemy that is in
\* game.enemies when a tick ends has been in an update and in a collision
\* pass.
C24_SpawnedEnemySeenInSameTick ==
    \A i \in 1..Len(enemies) : enemies[i].updates >= 1 /\ enemies[i].checks >= 1

C31_FormationStrategies ==
    event.kind = "spawn" =>
        /\ Len(enemies) - event.before =
               (CASE event.formation = "single" -> 1
                  [] event.formation = "line" -> 3
                  [] event.formation = "v" -> 5)
        /\ Len(enemies) - event.before > 0
        /\ \A i \in (event.before + 1)..Len(enemies) :
               enemies[i].active /\ enemies[i].type = event.type

\* C31 witness: a line of Scouts and then a V of Kamikazes have been
\* spawned, eight enemies in all.
C31_Witness ==
    /\ event.kind = "spawn"
    /\ event.formation = "v"
    /\ event.type = "Kamikaze"
    /\ event.before = 3
    /\ Len(enemies) = 8
    /\ enemies[1].type = "Scout"

\* C32: a Gunship starts descending; an update of a descending Gunship moves
\* it down by its speed of 60 px/s times the delta and makes it hover exactly
\* when that takes y to descendTo or beyond; an update of a hovering Gunship
\* leaves it hovering at the same y; and an update that leaves the Gunship
\* descending starts no burst and pushes no projectile.
C32_GunshipTwoStates ==
    [][GunshipFrame =>
          /\ gunship.hovering => (gunship'.hovering /\ gunship'.y = gunship.y)
          /\ ~gunship.hovering =>
                 /\ gunship.y < DescendTo * 1000
                 /\ gunship'.y = gunship.y + 60 * Min(now' - now, 100)
                 /\ gunship'.hovering <=> gunship'.y >= DescendTo * 1000
          /\ ~gunship'.hovering =>
                 /\ projectiles' = projectiles
                 /\ gunship'.burstShotsFired = 0
                 /\ gunship'.burstStart = -1]_vars

\* C32 witness: the Gunship has come down from y = -20 in steps of 6 px to
\* y = 154, the first at or beyond descendTo = 150, hovers there and has
\* fired the first shot of a burst.
C32_Witness ==
    /\ gunship.hovering
    /\ gunship.y = 154 * 1000
    /\ gunship.pushed >= 1
    /\ Len(projectiles) >= 1

\* C33: the enemies that their own update deactivates beyond the margin of
\* the playfield never run onDeath; and a frame in which enemies left that
\* way and no enemy died leaves the score as it was, pushes no effect and
\* no power-up.
C33_LeavingIsNotDying ==
    event.kind = "frame" =>
        /\ event.leftDeaths = 0
        /\ (event.left > 0 /\ event.deaths = 0) =>
               /\ event.scored = 0
               /\ event.effects = 0
               /\ event.drops = 0
               /\ event.dropped = 0

\* C33 witness: a frame in which a Kamikaze left the playfield and was
\* removed and no enemy died; the score is that of a Scout that rammed the
\* ship in an earlier frame.
C33_Witness ==
    /\ event.kind = "frame"
    /\ event.leftTypes = {"Kamikaze"}
    /\ event.deaths = 0
    /\ enemies = <<>>
    /\ score = ScoutScore

\* C34: between ticks every entity in projectiles, enemies, effects,
\* particles and powerups is active; the updates and the collision pass of a
\* completed tick take nothing out of a collection (after the updates each
\* collection has the entities it had, particles possibly more, and the
\* collision pass leaves at least as many); and the collections after the
\* tick are exactly the active entities that the filters found, in order.
C34_PrunedAtEndOfTick ==
    ~crashed =>
        /\ \A i \in 1..Len(projectiles) : projectiles[i].active
        /\ \A i \in 1..Len(enemies) : enemies[i].active
        /\ \A i \in 1..Len(powerups) : powerups[i].active
        /\ \A i \in 1..Len(fx.particles) : fx.particles[i].active
        /\ fx.present => fx.active
        /\ event.kind = "frame" =>
             /\ event.updated.projectiles = event.old.projectiles
             /\ event.updated.enemies = event.old.enemies
             /\ event.updated.effects = event.old.effects
             /\ event.updated.powerups = event.old.powerups
             /\ event.updated.particles >= event.old.particles
             /\ Len(event.found.projectiles) >= event.updated.projectiles
             /\ Len(event.found.enemies) >= event.updated.enemies
             /\ Len(event.found.powerups) >= event.updated.powerups
             /\ projectiles = SelectSeq(event.found.projectiles, IsActive)
             /\ enemies = SelectSeq(event.found.enemies, IsActive)
             /\ powerups = SelectSeq(event.found.powerups, IsActive)
             /\ fx.particles = SelectSeq(event.found.particles, IsActive)
             /\ fx.present = (SelectSeq(event.found.effects, IsActive) # <<>>)

\* C34 witness: a completed tick whose filters found an inactive projectile,
\* an inactive enemy and an inactive power-up and removed them, and found
\* active particles and kept them.
C34_Witness ==
    /\ ~crashed
    /\ event.kind = "frame"
    /\ \E i \in 1..Len(event.found.projectiles) : ~event.found.projectiles[i].active
    /\ \E i \in 1..Len(event.found.enemies) : ~event.found.enemies[i].active
    /\ \E i \in 1..Len(event.found.powerups) : ~event.found.powerups[i].active
    /\ Len(fx.particles) > 0
    /\ Len(fx.particles) = Len(event.found.particles)

\* The power-ups that the collision pass of the latest frame collected: the
\* inactive ones that touch the ship
Collected ==
    {i \in 1..Len(event.found.powerups) :
        /\ ~event.found.powerups[i].active
        /\ collidesWith(player, event.found.powerups[i])}

RECURSIVE Gain(_, _, _)
\* The sum over the power-ups of ps with an index in is of amount[type]
Gain(ps, is, amount) ==
    IF is = {} THEN 0
    ELSE Bind(CHOOSE i \in is : TRUE,
              LAMBDA i : amount[ps[i].type] + Gain(ps, is \ {i}, amount))

\* C35: after a frame every power-up that touched the ship in the collision
\* pass is inactive and out of game.powerups; the ship's health is its
\* health before the frame plus 25 for each health and 50 for each
\* health_large collected in the frame, capped at maxHealth, and the rocket
\* ammo is the ammo before plus 5 for each rocket_ammo collected, capped at
\* maxAmmo; so a power-up collected in one frame adds nothing in a later one.
C35_CollectedOnce ==
    event.kind = "frame" =>
        /\ \A i \in 1..Len(event.found.powerups) :
             collidesWith(player, event.found.powerups[i])
                => ~event.found.powerups[i].active
        /\ powerups = SelectSeq(event.found.powerups, IsActive)
        /\ player.health =
             Min(PlayerMaxHealth,
                 event.before.health
                   + Gain(event.found.powerups, Collected,
                          [health |-> 25, health_large |-> 50, rocket_ammo |-> 0]))
        /\ ammo =
             Min(RocketMaxAmmo,
                 event.before.ammo
                   + Gain(event.found.powerups, Collected,
                          [health |-> 0, health_large |-> 0, rocket_ammo |-> 5]))

\* C35 witness: a frame collected a health and a rocket_ammo power-up that
\* had fallen onto the ship, raising the health from 30 to 55 and the ammo
\* from 0 to 5.
C35_Witness ==
    /\ event.kind = "frame"
    /\ Cardinality(Collected) = 2
    /\ event.old.powerups = 2
    /\ powerups = <<>>
    /\ event.before.health = 30 /\ player.health = 55
    /\ event.before.ammo = 0 /\ ammo = 5
    /\ event.found.powerups[1].y > OnPlayer.y - 38 + 8

\* C36: the rocket ammo is always within 0..maxAmmo; a fireRocket call that
\* returns a rocket (500 ms after the last one, with ammo left) takes one
\* round and any other call takes none; and the ammo rises only in a frame
\* whose collision pass collects a rocket_ammo power-up, by 5 up to maxAmmo.
C36_AmmoAccounting ==
    /\ [](ammo \in 0..RocketMaxAmmo)
    /\ [][/\ PlayerFireRocket =>
                IF now - lastFireTime["rocket"] >= 500 /\ ammo > 0
                THEN /\ ammo' = ammo - 1
                     /\ Len(projectiles') = Len(projectiles) + 1
                ELSE /\ ammo' = ammo
                     /\ projectiles' = projectiles
          /\ ammo' < ammo => PlayerFireRocket
          /\ ammo' > ammo =>
                /\ event'.kind = "frame"
                /\ event'.events = event.events + 1
                /\ \E i \in 1..Len(powerups) :
                     /\ powerups[i].type = "rocket_ammo"
                     /\ ~event'.found.powerups[i].active
                /\ ammo' = Min(RocketMaxAmmo, ammo + 5)]_vars

\* C36 witness: the launcher fired its last rocket, a rocket_ammo power-up
\* was then collected with the ammo at 0, and the next rocket left 4.
C36_Witness ==
    /\ ammo = 4
    /\ fireLog.weapon = "rocket" /\ fireLog.count = 1 /\ fireLog.ammoBefore = 5
    /\ event.kind = "frame"
    /\ event.before.ammo = 0

TimersSet(l, m) == IF m > 0 THEN l - m ELSE IF l > 1 THEN l - 1 ELSE 0

C39_CosmeticsAreFiniteLived ==
    /\ [][(fx.present /\ fx'.present)
             => fx'.currentFrame \in {fx.currentFrame, fx.currentFrame + 1}]_vars
    /\ [](\A k \in 1..Len(fx.particles) :
              fx.particles[k].age < fx.particles[k].lifetime)
    /\ (fx.present ~> ~fx.present)

\* The enemies of a list whose health has been brought to 0
Killed(es) == SelectSeq(es, LAMBDA e : e.health = 0)

\* C40: game.score never decreases, and a tick adds to it the scoreValue of
\* every enemy whose health the tick's damage brought to 0, each enemy
\* counted once: the enemies game.enemies has lost when the tick removed the
\* inactive ones, or, when the tick ended in an exception before removing
\* them, the enemies left in game.enemies with health 0.
C40_ScoreIntegrity ==
    /\ [][score' >= score]_vars
    /\ [](pre.pass =>
             score - pre.score =
                 IF crashed
                 THEN ScoreOf(Killed(enemies))
                 ELSE ScoreOf(pre.enemies) - ScoreOf(enemies))

=============================================================================
